---- MODULE Spec2Model ----
(***************************************************************************)
(* The RISE cache-aside fetch engine of pygeoapi/provider/                 *)
(* rise_edr_helpers.py (rise_cache.py holds the same logic over pluggable  *)
(* stores), the page merger and the location filters of LocationHelper,    *)
(* as a state machine.                                                     *)
(*                                                                         *)
(* Python dicts are insertion ordered: a dict is modelled as a sequence of *)
(* [k, v] entries with distinct keys.  The cache store itself (a shelf or  *)
(* a redis database) has no order the callers may use: it is a function    *)
(* whose DOMAIN is the set of stored urls.  A call runs atomically from    *)
(* one await to the next; the remote's answer to a GET is chosen when the  *)
(* fetch completes.                                                        *)
(***************************************************************************)
EXTENDS Integers, Sequences, FiniteSets, TLC

VARIABLES
    cache,        \* the store: [stored urls -> payload]
    pc,           \* "idle", "fetch" (awaiting fetch_url), "group" (awaiting the tasks), "done"
    call,         \* the running (or last finished) call and its arguments
    ret,          \* outcome of the last finished call
    tasks,        \* the fetch tasks fetch_url_group created, in creation order
    urls_not_in_cache, \* local of get_or_fetch_group
    local_fetch,  \* local of get_or_fetch_group: the dict read from the cache
    results,      \* local of fetch_url_group: the dict it fills
    single,       \* the fetch_url that get_or_fetch awaits (or awaited) in this call, if any
    prev,         \* the undisturbed get_or_fetch call that finished just before this one, if any
    pages,        \* the PageMap a client holds and hands to merge_pages
    pagesGiven,   \* that PageMap as it was when merge_pages was last called
    merged,       \* outcome of the last merge_pages
    merges,       \* number of merge_pages calls made on the PageMap
    location_response, \* the records a client reaches through its reference to the
                  \* collection it handed to the last LocationHelper call
    given,        \* those records as they were when that call was made
    filtered,     \* outcome of that call
    last,         \* that call: its name and arguments
    shelf,        \* the dbm file of ShelveCache: whether it exists, and its entries
    redis,        \* the database of RedisCache: [stored urls -> bytes]
    answer        \* the last operation made on both backends and its two outcomes

cacheVars ==
    <<cache, pc, call, ret, tasks, urls_not_in_cache, local_fetch, results,
      single, prev>>
mergeVars == <<pages, pagesGiven, merged, merges>>
filterVars == <<location_response, given, filtered, last>>
storeVars == <<shelf, redis, answer>>
vars == <<cacheVars, mergeVars, filterVars, storeVars>>

-----------------------------------------------------------------------------
(* Bounds of the model *)

\* longest url list a client hands to get_or_fetch_group
MaxGroup == 2
\* most pages the remote collection has
MaxPages == 2
\* most records in one page handed to merge_pages
MaxRecords == 2
\* most merge_pages calls on one PageMap
MaxMerges == 2
\* most records in a location collection
MaxLocs == 3
\* most locations in a collection whose catalog items are fetched
MaxCatalogLocs == 2

-----------------------------------------------------------------------------
(* Python dicts *)

EmptyDict == <<>>

DictKeys(d) == {d[i].k : i \in 1..Len(d)}

DictHas(d, key) == \E i \in 1..Len(d) : d[i].k = key

DictGet(d, key) == d[CHOOSE i \in 1..Len(d) : d[i].k = key].v

\* d[key] = value: an existing key keeps its position
DictSet(d, key, value) ==
    IF DictHas(d, key)
    THEN [i \in 1..Len(d) |-> IF d[i].k = key THEN [k |-> key, v |-> value] ELSE d[i]]
    ELSE Append(d, [k |-> key, v |-> value])

RECURSIVE DictUpdate(_, _)
\* d.update(e)
DictUpdate(d, e) ==
    IF e = <<>> THEN d
    ELSE DictUpdate(DictSet(d, Head(e).k, Head(e).v), Tail(e))

RECURSIVE DictFromKeys(_, _, _)
\* {key: F(key) for key in keys}, built left to right; val is a function on the keys
DictFromKeys(d, keys, val) ==
    IF keys = <<>> THEN d
    ELSE DictFromKeys(DictSet(d, Head(keys), val[Head(keys)]), Tail(keys), val)

-----------------------------------------------------------------------------
(* Urls and the remote *)

MAX_ITEMS_PER_PAGE == 100

LOCATION_API == "https://data.usbr.gov/rise/api/location"

\* the catalog items a client asks for, one by one or as a group
ItemUrls ==
    {"https://data.usbr.gov/rise/api/catalog-item/1",
     "https://data.usbr.gov/rise/api/catalog-item/2"}

\* f"{url}?page={page}&itemsPerPage={MAX_ITEMS_PER_PAGE}"
PageUrl(url, page) ==
    url \o "?page=" \o ToString(page) \o "&itemsPerPage=" \o ToString(MAX_ITEMS_PER_PAGE)

\* the totalItems a paginated collection may report: every count at a page
\* boundary and next to it, up to MaxPages full pages
Totals ==
    {0} \cup {MAX_ITEMS_PER_PAGE * p : p \in 1..MaxPages}
        \cup {MAX_ITEMS_PER_PAGE * (p - 1) + 1 : p \in 1..MaxPages}

\* A decoded JSON body.  src stands for the content that makes the body of one
\* resource differ from the body of another (its data.id).  Only a paginated
\* body has "meta".
Unpaginated(u) == [src |-> u]
Paginated(u, n) == [src |-> u, meta |-> [totalItems |-> n]]
\* the JSON body of a non-2xx answer
ErrorBody(u, s) == [src |-> u, error |-> s]
\* a body that is not JSON
TextBody(u) == [src |-> u, text |-> "<html>"]

\* What the remote may answer to GET u, now or later: a collection changes by
\* its totalItems or stops being paginated, and any resource may answer with
\* its data at one time and with an error at another.
Responses(u) ==
    LET good == IF u = LOCATION_API
                THEN {Unpaginated(u)} \cup {Paginated(u, n) : n \in Totals}
                ELSE {Unpaginated(u)}
    IN  {[status |-> 200, json |-> TRUE, body |-> b] : b \in good}
            \cup {[status |-> 404, json |-> TRUE, body |-> ErrorBody(u, 404)]}
            \cup {[status |-> s, json |-> FALSE, body |-> TextBody(u)] : s \in {200, 502}}

\* fetch_url with the decoder's exception swallowed: an empty dict instead
fetch_url_swallow(resp) ==
    [kind |-> "return", value |-> IF resp.json THEN resp.body ELSE EmptyDict]

\* fetch_url: the decoded body whatever the status; the decoder's exception
\* (logged and re-raised) when the body is not JSON
fetch_url(resp) ==
    IF resp.json
    THEN [kind |-> "return", value |-> resp.body]
    ELSE [kind |-> "raise", exc |-> "ContentTypeError", value |-> resp.body]

-----------------------------------------------------------------------------
(* CacheStore *)

contains(c, url) == url \in DOMAIN c

get(c, url) == c[url]

set(c, url, data) == [x \in DOMAIN c \cup {url} |-> IF x = url THEN data ELSE c[x]]

clear(c, url) == [x \in DOMAIN c \ {url} |-> c[x]]

reset(c) == [url \in {} |-> EmptyDict]

\* the entries of the store under the urls of S
Restrict(c, S) == [x \in DOMAIN c \cap S |-> c[x]]

-----------------------------------------------------------------------------
(* ConcurrentFetcher: get_or_fetch, get_or_fetch_group, fetch_url_group *)

NoCall == [op |-> "none"]
NoResult == [kind |-> "none"]
Return(value) == [kind |-> "return", value |-> value]
Raise(exc) == [kind |-> "raise", exc |-> exc]

NoTask == [state |-> "none"]
Pending(url) == [url |-> url, state |-> "pending"]
Done(url, body) == [url |-> url, state |-> "done", body |-> body]
Failed(url) == [url |-> url, state |-> "failed"]

\* get_or_fetch that never looks into the cache
MustFetch_IgnoreCache(c, url, force_fetch) == TRUE

\* the else branch of `if url in db and not force_fetch`
MustFetch(c, url, force_fetch) == ~contains(c, url) \/ force_fetch

\* the partition with the cache test lost: every url is fetched
UrlsNotInCache_All(c, urls, force_fetch) == urls

\* [url for url in urls if url not in db or force_fetch]
UrlsNotInCache(c, urls, force_fetch) ==
    LET Test(url) == ~contains(c, url) \/ force_fetch IN SelectSeq(urls, Test)

\* [url for url in urls if url in db and not force_fetch]
UrlsInCache(c, urls, force_fetch) ==
    LET Test(url) == contains(c, url) /\ ~force_fetch IN SelectSeq(urls, Test)

\* {url: db[url] for url in urls_in_cache}
LocalFetch(c, urls_in_cache) ==
    DictFromKeys(EmptyDict, urls_in_cache, [url \in DOMAIN c |-> get(c, url)])

\* results = {url: {} for url in urls}
Placeholders(urls) ==
    DictFromKeys(EmptyDict, urls, [url \in {urls[i] : i \in 1..Len(urls)} |-> EmptyDict])

\* `for coroutine, url in zip(asyncio.as_completed(tasks), urls)`: the url that
\* the n-th iteration pairs with the n-th task to complete, which is task i
ZipUrl(urls, n, i) == urls[n]

\* local_fetch.update(await remote_fetch); return local_fetch
GroupResult(local, remote) == DictUpdate(local, remote)

\* What a call does up to its first suspension: the locals it sets, the GETs
\* it sends, and either the place it suspends at or its outcome.
ReturnPlan(value) ==
    [pc |-> "done", ret |-> Return(value), single |-> NoTask, tasks |-> <<>>,
     nc |-> <<>>, lf |-> EmptyDict, results |-> EmptyDict]

AwaitFetchPlan(url) ==
    [pc |-> "fetch", ret |-> NoResult, single |-> Pending(url), tasks |-> <<>>,
     nc |-> <<>>, lf |-> EmptyDict, results |-> EmptyDict]

\* get_or_fetch up to the await of fetch_url, or to its return on a cache hit
GetOrFetchPlan(c, url, force_fetch) ==
    IF MustFetch(c, url, force_fetch)
    THEN AwaitFetchPlan(url)
    ELSE ReturnPlan(get(c, url))

\* get_or_fetch_group that creates the tasks and returns the placeholders
\* without awaiting them
GroupPlan_noawait(c, urls, force_fetch) ==
    LET nc == UrlsNotInCache(c, urls, force_fetch)
        lf == LocalFetch(c, UrlsInCache(c, urls, force_fetch))
        res == Placeholders(nc)
    IN  [pc |-> "done", ret |-> Return(GroupResult(lf, res)), single |-> NoTask,
         tasks |-> [i \in 1..Len(nc) |-> Pending(nc[i])],
         nc |-> nc, lf |-> lf, results |-> res]

\* get_or_fetch_group up to the first await in fetch_url_group; with nothing to
\* fetch the loop body never runs and the call returns without suspending
GroupPlan(c, urls, force_fetch) ==
    LET nc == UrlsNotInCache(c, urls, force_fetch)
        lf == LocalFetch(c, UrlsInCache(c, urls, force_fetch))
        res == Placeholders(nc)
    IN  [pc |-> IF nc = <<>> THEN "done" ELSE "group",
         ret |-> IF nc = <<>> THEN Return(GroupResult(lf, res)) ELSE NoResult,
         single |-> NoTask,
         tasks |-> [i \in 1..Len(nc) |-> Pending(nc[i])],
         nc |-> nc, lf |-> lf, results |-> res]

\* a plan that follows the awaited fetch of get_or_fetch keeps that fetch
Apply(plan) ==
    /\ pc' = plan.pc
    /\ ret' = plan.ret
    /\ single' = plan.single
    /\ tasks' = plan.tasks
    /\ urls_not_in_cache' = plan.nc
    /\ local_fetch' = plan.lf
    /\ results' = plan.results

\* the urls the call has sent a GET for, in order
Requests ==
    (IF single = NoTask THEN <<>> ELSE <<single.url>>)
        \o [i \in 1..Len(tasks) |-> tasks[i].url]

\* the bodies the call has received from the remote
Fetched ==
    (IF single.state = "done" THEN {single.body} ELSE {})
        \cup {tasks[i].body : i \in {j \in 1..Len(tasks) : tasks[j].state = "done"}}

\* the call that has just finished, kept while nothing disturbs the cache
Remember ==
    IF pc = "done" /\ call.op = "get_or_fetch" /\ ~call.disturbed
    THEN [op |-> call.op, url |-> call.url, force |-> call.force,
          miss |-> ~contains(call.cached, call.url), ret |-> ret, net |-> Len(Requests)]
    ELSE NoCall

Enter(op, url, urls, force_fetch) ==
    /\ pc \in {"idle", "done"}
    /\ UNCHANGED <<mergeVars, filterVars, storeVars>>
    /\ call' = [op |-> op, url |-> url, urls |-> urls, force |-> force_fetch,
                cached |-> Restrict(cache, {url} \cup {urls[i] : i \in 1..Len(urls)}),
                disturbed |-> FALSE, raced |-> FALSE]
    /\ prev' = IF op = "get_or_fetch" THEN Remember ELSE NoCall

\* await RISECache.get_or_fetch(url, force_fetch), up to its first suspension
StartGetOrFetch(url, force_fetch) ==
    LET plan == GetOrFetchPlan(cache, url, force_fetch) IN
    /\ Enter("get_or_fetch", url, <<>>, force_fetch)
    /\ Apply(plan)
    /\ UNCHANGED cache

\* await RISECache.get_or_fetch_group(urls, force_fetch), up to its first suspension
StartGroup(urls, force_fetch) ==
    LET plan == GroupPlan(cache, urls, force_fetch) IN
    /\ Enter("get_or_fetch_group", "", urls, force_fetch)
    /\ Apply(plan)
    /\ UNCHANGED cache

MarkDone(ts, i, body) == [ts EXCEPT ![i] = Done(ts[i].url, body)]
MarkFailed(ts, i) == [ts EXCEPT ![i] = Failed(ts[i].url)]

PendingTasks == {i \in 1..Len(tasks) : tasks[i].state = "pending"}
DoneTasks == {i \in 1..Len(tasks) : tasks[i].state = "done"}

\* the page count rounded down: the last, partial page is lost
pages_to_complete_floor(total_items) == total_items \div MAX_ITEMS_PER_PAGE

\* math.ceil(total_items / MAX_ITEMS_PER_PAGE)
pages_to_complete(total_items) ==
    IF total_items % MAX_ITEMS_PER_PAGE = 0
    THEN total_items \div MAX_ITEMS_PER_PAGE
    ELSE total_items \div MAX_ITEMS_PER_PAGE + 1

\* NOT_PAGINATED = "meta" not in response
NOT_PAGINATED(response) == "meta" \notin DOMAIN response

\* the urls of range(1, int(pages_to_complete) + 1)
PageUrls(url, response) ==
    [page \in 1..pages_to_complete(response.meta.totalItems) |-> PageUrl(url, page)]

\* the force_fetch that get_or_fetch_all_pages hands to its first get_or_fetch:
\* `asyncio.run(RISECache.get_or_fetch(url))` passes none, so the default
FirstForceFetch(force_fetch) == FALSE

\* get_or_fetch_all_pages from the first response on, up to the first
\* suspension of the group fetch
PaginatePlan(c, url, response, force_fetch) ==
    IF NOT_PAGINATED(response)
    THEN ReturnPlan(<<[k |-> url, v |-> response]>>)
    ELSE GroupPlan(c, PageUrls(url, response), force_fetch)

\* RISECache.get_or_fetch_all_pages(url, force_fetch), up to its first suspension
StartAllPages(url, force_fetch) ==
    LET first == GetOrFetchPlan(cache, url, FirstForceFetch(force_fetch))
        plan == IF first.pc = "fetch" THEN first
                ELSE PaginatePlan(cache, url, first.ret.value, force_fetch)
    IN  /\ Enter("get_or_fetch_all_pages", url, <<>>, force_fetch)
        /\ Apply(plan)
        /\ UNCHANGED cache

\* fetch_url completes for the awaiting get_or_fetch: an exception ends the
\* call; a body is stored and returned, and get_or_fetch_all_pages goes on
FetchComplete ==
    /\ pc = "fetch"
    /\ \E resp \in Responses(single.url) :
        LET r == fetch_url(resp)
            c == set(cache, call.url, r.value)
        IN  IF r.kind = "raise"
            THEN /\ pc' = "done"
                 /\ ret' = Raise(r.exc)
                 /\ single' = Failed(single.url)
                 /\ UNCHANGED <<cache, tasks, urls_not_in_cache, local_fetch, results>>
            ELSE LET plan == IF call.op = "get_or_fetch"
                             THEN ReturnPlan(r.value)
                             ELSE PaginatePlan(c, call.url, r.value, call.force)
                 IN  /\ cache' = c
                     /\ Apply([plan EXCEPT !.single = Done(single.url, r.value)])
    /\ UNCHANGED <<call, prev, mergeVars, filterVars, storeVars>>

\* One iteration of the loop of fetch_url_group: some pending task i completes
\* next; its exception ends the call; its body is filed and stored under the
\* url zip gives it.  After the last iteration the call returns.
\* RISECache.set opens the shelf anew while get_or_fetch_group holds it open:
\* a dbm that locks its file (dbm.gnu) refuses that with dbm.error, which ends
\* the call; one that does not (dbm.dumb, dbm.ndbm) stores the body.
GroupStep ==
    /\ pc = "group"
    /\ \E i \in PendingTasks : \E resp \in Responses(tasks[i].url) :
        LET r == fetch_url(resp)
            n == Cardinality(DoneTasks) + 1
            url == ZipUrl(urls_not_in_cache, n, i)
            res == DictSet(results, url, r.value)
        IN  IF r.kind = "raise"
            THEN /\ pc' = "done"
                 /\ ret' = Raise(r.exc)
                 /\ tasks' = MarkFailed(tasks, i)
                 /\ UNCHANGED <<cache, results>>
            ELSE /\ results' = res
                 /\ tasks' = MarkDone(tasks, i, r.value)
                 /\ \/ /\ cache' = set(cache, url, r.value)
                       /\ IF n = Len(urls_not_in_cache)
                          THEN pc' = "done" /\ ret' = Return(GroupResult(local_fetch, res))
                          ELSE pc' = "group" /\ ret' = ret
                    \/ /\ cache' = cache
                       /\ pc' = "done" /\ ret' = Raise("dbm.error")
    /\ UNCHANGED <<call, prev, single, urls_not_in_cache, local_fetch, mergeVars, filterVars,
                   storeVars>>

\* a clear or a reset takes effect: since the call began (disturbed), and
\* while the call is suspended at an await (raced)
Disturb ==
    /\ call' = IF call.op = "none" THEN call
               ELSE [call EXCEPT !.disturbed = TRUE,
                                 !.raced = @ \/ pc \in {"fetch", "group"}]
    /\ prev' = NoCall

\* RISECache.clear(url), by this or another client of the store
Clear(url) ==
    /\ cache' = clear(cache, url)
    /\ Disturb
    /\ UNCHANGED <<pc, ret, single, tasks, urls_not_in_cache, local_fetch, results, mergeVars,
                   filterVars, storeVars>>

\* RISECache.reset()
Reset ==
    /\ cache' = reset(cache)
    /\ Disturb
    /\ UNCHANGED <<pc, ret, single, tasks, urls_not_in_cache, local_fetch, results, mergeVars,
                   filterVars, storeVars>>

-----------------------------------------------------------------------------
(* The fetcher under its clients: single and grouped fetches of catalog items *)

\* the url lists of at most MaxGroup urls, repeats included
UrlLists(S) == UNION {[1..n -> S] : n \in 0..MaxGroup}

InitCache ==
    /\ cache = [url \in {} |-> EmptyDict]
    /\ pc = "idle"
    /\ call = NoCall
    /\ ret = NoResult
    /\ tasks = <<>>
    /\ urls_not_in_cache = <<>>
    /\ local_fetch = EmptyDict
    /\ results = EmptyDict
    /\ single = NoTask
    /\ prev = NoCall

\* no PageMap is being merged
MergeIdle ==
    /\ pages = <<>>
    /\ pagesGiven = <<>>
    /\ merged = NoResult
    /\ merges = 0

\* no collection is being filtered
FilterIdle ==
    /\ location_response = <<>>
    /\ given = <<>>
    /\ filtered = NoResult
    /\ last = NoCall

\* no operation was made on the backends yet
NoAnswer == [op |-> [name |-> "none"]]

\* the pluggable stores of rise_cache.py are not in use
StoreIdle ==
    /\ shelf = [exists |-> FALSE, entries |-> <<>>]
    /\ redis = <<>>
    /\ answer = NoAnswer

Init == InitCache /\ MergeIdle /\ FilterIdle /\ StoreIdle

Next ==
    \/ \E url \in ItemUrls, force_fetch \in BOOLEAN : StartGetOrFetch(url, force_fetch)
    \/ \E urls \in UrlLists(ItemUrls), force_fetch \in BOOLEAN : StartGroup(urls, force_fetch)
    \/ FetchComplete
    \/ GroupStep
    \/ \E url \in ItemUrls : Clear(url)
    \/ Reset

Spec == Init /\ [][Next]_vars

\* the clients of get_or_fetch_group alone
NextLive ==
    \/ \E urls \in UrlLists(ItemUrls), force_fetch \in BOOLEAN : StartGroup(urls, force_fetch)
    \/ GroupStep
    \/ \E url \in ItemUrls : Clear(url)
    \/ Reset

\* the group fetch when every GET that was sent is answered in the end: a
\* task that can complete does complete, whatever else the clients do
\* meanwhile
SpecLive == Init /\ [][NextLive]_vars /\ WF_vars(GroupStep)

-----------------------------------------------------------------------------
(* The page aggregator under its clients *)

\* every url get_or_fetch_all_pages(LOCATION_API) may touch
PageUniverse == {LOCATION_API} \cup {PageUrl(LOCATION_API, p) : p \in 1..MaxPages}

NextPages ==
    \/ \E force_fetch \in BOOLEAN : StartAllPages(LOCATION_API, force_fetch)
    \/ FetchComplete
    \/ GroupStep
    \/ \E url \in PageUniverse : Clear(url)
    \/ Reset

SpecPages == Init /\ [][NextPages]_vars

-----------------------------------------------------------------------------
(* PageAggregator: merge_pages *)

\* Python's None, as a key and as a value
NoneKey == "None"
NoneValue == [none |-> TRUE]

\* content.get("data", [])
DataOf(content) == IF "data" \in DOMAIN content THEN content.data ELSE <<>>

RECURSIVE MergeLoop(_, _, _)
\* The loop of merge_pages from the i-th entry on.  combined_data is the dict of
\* the first entry itself, not a copy: extending it extends the first page.
\* combined_data["data"] of a first page without "data" is a KeyError.
MergeLoop(ps, i, combined_data) ==
    IF i > Len(ps) THEN [kind |-> "return", combined |-> combined_data]
    ELSE LET data == DataOf(ps[i].v) IN
         IF data = <<>> THEN MergeLoop(ps, i + 1, combined_data)
         ELSE IF "data" \notin DOMAIN combined_data
              THEN [kind |-> "raise", combined |-> combined_data]
              ELSE MergeLoop(ps, i + 1, [combined_data EXCEPT !.data = @ \o data])

\* merge_pages that forgets the last page
merge_pages_droplast(ps) ==
    IF ps = <<>>
    THEN [outcome |-> Return(<<[k |-> NoneKey, v |-> NoneValue]>>), pages |-> ps]
    ELSE LET r == MergeLoop(SubSeq(ps, 1, Len(ps) - 1), 2, ps[1].v)
             after == [ps EXCEPT ![1] = [k |-> ps[1].k, v |-> r.combined]]
         IN  [outcome |-> IF r.kind = "raise" THEN Raise("KeyError")
                          ELSE Return(<<[k |-> ps[1].k, v |-> r.combined]>>),
              pages |-> after]

\* merge_pages(pages): its outcome, and the PageMap as the call leaves it
merge_pages(ps) ==
    IF ps = <<>>
    THEN [outcome |-> Return(<<[k |-> NoneKey, v |-> NoneValue]>>), pages |-> ps]
    ELSE LET r == MergeLoop(ps, 2, ps[1].v)
             after == [ps EXCEPT ![1] = [k |-> ps[1].k, v |-> r.combined]]
         IN  [outcome |-> IF r.kind = "raise" THEN Raise("KeyError")
                          ELSE Return(<<[k |-> ps[1].k, v |-> r.combined]>>),
              pages |-> after]

\* a client merges the PageMap it holds
MergePages ==
    /\ merges < MaxMerges
    /\ LET r == merge_pages(pages) IN
        /\ merged' = r.outcome
        /\ pages' = r.pages
    /\ pagesGiven' = pages
    /\ merges' = merges + 1
    /\ UNCHANGED <<cacheVars, filterVars, storeVars>>

\* the records of the pages
Records == {"r1", "r2"}

\* the page bodies handed to merge_pages: with a record array of at most
\* MaxRecords records, or without one
Contents ==
    {[data |-> d] : d \in UNION {[1..n -> Records] : n \in 0..MaxRecords}}
        \cup {[error |-> 404]}

\* the PageMaps of at most MaxPages pages: distinct page urls in any order
PageMaps ==
    LET keys == {PageUrl(LOCATION_API, p) : p \in 1..MaxPages}
        lists == UNION {[1..n -> keys] : n \in 0..MaxPages}
        inj == {l \in lists : \A i, j \in 1..Len(l) : l[i] = l[j] => i = j}
    IN  UNION {{[i \in 1..Len(l) |-> [k |-> l[i], v |-> c[i]]] : c \in [1..Len(l) -> Contents]}
               : l \in inj}

InitMerge ==
    /\ InitCache
    /\ FilterIdle
    /\ StoreIdle
    /\ pages \in PageMaps
    /\ pagesGiven = pages
    /\ merged = NoResult
    /\ merges = 0

NextMerge == MergePages

SpecMerge == InitMerge /\ [][NextMerge]_vars

-----------------------------------------------------------------------------
(* Properties of merge_pages *)

AllHaveRecords(ps) == \A i \in 1..Len(ps) : "data" \in DOMAIN ps[i].v

RECURSIVE ConcatRecords(_)
ConcatRecords(ps) ==
    IF ps = <<>> THEN <<>> ELSE Head(ps).v.data \o ConcatRecords(Tail(ps))

RECURSIVE SumRecords(_)
SumRecords(ps) ==
    IF ps = <<>> THEN 0 ELSE Len(Head(ps).v.data) + SumRecords(Tail(ps))

\* C8: for a PageMap of k >= 1 pages, the i-th holding n_i records, merge_pages
\* returns a map of one entry, keyed by the first page's url, whose record
\* array is the concatenation of the pages' arrays in the order of the
\* PageMap, the sum of the n_i records in all.
C8_MergeConcatenatesInPageOrder ==
    (merges > 0 /\ Len(pagesGiven) >= 1 /\ AllHaveRecords(pagesGiven)) =>
        /\ merged.kind = "return"
        /\ Len(merged.value) = 1
        /\ merged.value[1].k = pagesGiven[1].k
        /\ merged.value[1].v.data = ConcatRecords(pagesGiven)
        /\ Len(merged.value[1].v.data) = SumRecords(pagesGiven)

\* two pages of different, non-empty record arrays have been merged
C8_Witness ==
    /\ merges = 1 /\ Len(pagesGiven) = 2 /\ AllHaveRecords(pagesGiven)
    /\ Len(pagesGiven[1].v.data) = 1 /\ Len(pagesGiven[2].v.data) = 2
    /\ pagesGiven[1].v.data[1] # pagesGiven[2].v.data[1]
    /\ merged.kind = "return" /\ Len(merged.value[1].v.data) = 3

-----------------------------------------------------------------------------
(* Properties of the fetcher *)

Elems(seq) == {seq[i] : i \in 1..Len(seq)}

\* a body the remote served with its data, not the body of a non-2xx answer
IsData(body) == "error" \notin DOMAIN body

GroupReturned == pc = "done" /\ call.op = "get_or_fetch_group" /\ ret.kind = "return"

\* the bodies the remote returned for url in this call
ReturnedFor(url) ==
    {tasks[i].body : i \in {j \in 1..Len(tasks) : tasks[j].state = "done" /\ tasks[j].url = url}}

AllFetchesSucceeded ==
    \A i \in 1..Len(tasks) : tasks[i].state = "done" /\ IsData(tasks[i].body)

\* C1: when get_or_fetch_group returns and all its fetches succeeded, the map
\* gives each requested url a payload the remote returned for that very url,
\* or the value cached under it when the call began, in whatever order the
\* fetch tasks completed.
C1_CompletionOrderNotObservable ==
    (GroupReturned /\ AllFetchesSucceeded) =>
        \A url \in Elems(call.urls) :
            /\ DictHas(ret.value, url)
            /\ IF url \in Elems(urls_not_in_cache)
               THEN DictGet(ret.value, url) \in ReturnedFor(url)
               ELSE DictGet(ret.value, url) = call.cached[url]

\* C2: two successive get_or_fetch(u), u absent at first and no clear or reset
\* since: without force_fetch, and the first having returned, they send one
\* GET in all and the second returns what the first stored; with force_fetch
\* they send two.
C2_CacheIdempotence ==
    (/\ pc = "done" /\ call.op = "get_or_fetch" /\ ~call.disturbed
     /\ prev # NoCall /\ prev.url = call.url /\ prev.miss /\ prev.force = call.force)
    => IF call.force
       THEN prev.net + Len(Requests) = 2
       ELSE prev.ret.kind = "return" =>
                /\ prev.net + Len(Requests) = 1
                /\ ret = prev.ret
                /\ contains(cache, call.url) /\ ret.value = get(cache, call.url)

C2_Witness ==
    /\ pc = "done" /\ call.op = "get_or_fetch" /\ ~call.disturbed /\ ~call.force
    /\ prev # NoCall /\ prev.url = call.url /\ prev.miss /\ ~prev.force
    /\ prev.ret.kind = "return" /\ IsData(prev.ret.value)

\* C3: get_or_fetch_group without force_fetch sends no GET for a url that was
\* in the cache when the call began, only for urls that were not, and returns
\* the value that was cached; with force_fetch it sends one for every url.
C3_CachedUrlsAreNotFetched ==
    call.op = "get_or_fetch_group" =>
        IF call.force
        THEN Requests = call.urls
        ELSE /\ Elems(Requests) \cap DOMAIN call.cached = {}
             /\ Elems(Requests) = Elems(call.urls) \ DOMAIN call.cached
             /\ GroupReturned =>
                    \A url \in DOMAIN call.cached :
                        /\ DictHas(ret.value, url)
                        /\ DictGet(ret.value, url) = call.cached[url]

C3_Witness ==
    /\ GroupReturned /\ ~call.force
    /\ DOMAIN call.cached # {}
    /\ Requests # <<>>
    /\ \E url \in DOMAIN call.cached : ~IsData(call.cached[url])

\* C4: once a fetch task of get_or_fetch_group has failed the call has failed;
\* a map that is returned holds, for every requested url, a decoded body and
\* never the empty placeholder.
C4_OneFailureFailsTheBatch ==
    call.op = "get_or_fetch_group" =>
        /\ (\E i \in 1..Len(tasks) : tasks[i].state = "failed") =>
                pc = "done" /\ ret.kind = "raise"
        /\ GroupReturned =>
                \A url \in Elems(call.urls) :
                    /\ DictHas(ret.value, url)
                    /\ DictGet(ret.value, url) # EmptyDict
                    /\ "src" \in DOMAIN DictGet(ret.value, url)

C4_Witness ==
    /\ call.op = "get_or_fetch_group" /\ pc = "done" /\ ret.kind = "raise"
    /\ \E i, j \in 1..Len(tasks) : tasks[i].state = "done" /\ tasks[j].state = "failed"

\* the answer to the GET of get_or_fetch was non-2xx, or its body not JSON
BadAnswer(task) ==
    \/ task.state = "failed"
    \/ task.state = "done" /\ ~IsData(task.body)

\* C5: a get_or_fetch(u) whose answer is non-2xx or undecodable fails instead
\* of returning a payload, and the body of the answer is not stored under u.
C5_BadAnswerFails ==
    (pc = "done" /\ call.op = "get_or_fetch" /\ BadAnswer(single)) =>
        /\ ret.kind = "raise"
        /\ single.state = "done" =>
                ~(contains(cache, call.url) /\ get(cache, call.url) = single.body)

-----------------------------------------------------------------------------
(* Properties of the page aggregator *)

AllPagesReturned ==
    pc = "done" /\ call.op = "get_or_fetch_all_pages" /\ ret.kind = "return"

\* the first response get_or_fetch_all_pages worked from: fetched, or the cached one
FirstResponse == IF single.state = "done" THEN single.body ELSE call.cached[call.url]

\* the least q with q * d >= n
CeilDiv(n, d) == CHOOSE q \in 0..n : q * d >= n /\ (q = 0 \/ (q - 1) * d < n)

\* C6: get_or_fetch_all_pages(url) returns {url: response} when the first
\* response has no pagination metadata, and otherwise a map of exactly
\* ceil(totalItems / 100) entries under the keys url?page=i&itemsPerPage=100,
\* i in 1..ceil(totalItems / 100), whatever was cached before.
C6_PageMapKeys ==
    AllPagesReturned =>
        IF "meta" \notin DOMAIN FirstResponse
        THEN ret.value = <<[k |-> call.url, v |-> FirstResponse]>>
        ELSE LET npages == CeilDiv(FirstResponse.meta.totalItems, 100) IN
             /\ Len(ret.value) = npages
             /\ DictKeys(ret.value) =
                    {call.url \o "?page=" \o ToString(i) \o "&itemsPerPage=100" : i \in 1..npages}
             /\ \A i, j \in 1..Len(ret.value) : ret.value[i].k = ret.value[j].k => i = j

\* a paginated collection of more than one page, the last one partial, with
\* the base url and some but not all of its pages cached before the call
C6_Witness ==
    /\ AllPagesReturned
    /\ single.state = "none"
    /\ "meta" \in DOMAIN FirstResponse
    /\ FirstResponse.meta.totalItems % 100 # 0
    /\ Len(ret.value) > 1
    /\ Len(tasks) > 0 /\ Len(tasks) < Len(ret.value)

\* C7: get_or_fetch_all_pages(url, force_fetch=true) returns only payloads it
\* fetched from the network during the call, and computes the pages from a
\* first response fetched during the call.
C7_ForceFetchServesNothingCached ==
    (AllPagesReturned /\ call.force) =>
        /\ \A i \in 1..Len(ret.value) : ret.value[i].v \in Fetched
        /\ single.state = "done"

-----------------------------------------------------------------------------
(* Python strings, numbers and dates *)

Char(s, i) == SubSeq(s, i, i)

\* s.startswith(p), s.endswith(p)
startswith(s, p) == Len(p) <= Len(s) /\ SubSeq(s, 1, Len(p)) = p
endswith(s, p) == Len(p) <= Len(s) /\ SubSeq(s, Len(s) - Len(p) + 1, Len(s)) = p

\* c in s, for a character c
HasChar(s, c) == \E i \in 1..Len(s) : Char(s, i) = c

RECURSIVE SplitFrom(_, _, _, _)
SplitFrom(s, sep, start, i) ==
    IF i > Len(s) THEN <<SubSeq(s, start, Len(s))>>
    ELSE IF Char(s, i) = sep
         THEN <<SubSeq(s, start, i - 1)>> \o SplitFrom(s, sep, i + 1, i + 1)
         ELSE SplitFrom(s, sep, start, i + 1)

\* s.split(sep), for a character sep
split(s, sep) == SplitFrom(s, sep, 1, 1)

RECURSIVE replace(_, _, _)
\* s.replace(c, new), for a character c
replace(s, c, new) ==
    IF s = "" THEN ""
    ELSE (IF Char(s, 1) = c THEN new ELSE Char(s, 1)) \o replace(SubSeq(s, 2, Len(s)), c, new)

RECURSIVE strip(_)
\* s.strip() of blanks, which int() does to its argument
strip(s) ==
    IF s # "" /\ Char(s, 1) = " " THEN strip(SubSeq(s, 2, Len(s)))
    ELSE IF s # "" /\ Char(s, Len(s)) = " " THEN strip(SubSeq(s, 1, Len(s) - 1))
    ELSE s

IsDigit(c) == \E d \in 0..9 : ToString(d) = c
DigitValue(c) == CHOOSE d \in 0..9 : ToString(d) = c
IsDigits(s) == Len(s) > 0 /\ \A i \in 1..Len(s) : IsDigit(Char(s, i))

RECURSIVE Number(_)
Number(s) ==
    IF s = "" THEN 0
    ELSE Number(SubSeq(s, 1, Len(s) - 1)) * 10 + DigitValue(Char(s, Len(s)))

Signed(s) == s # "" /\ Char(s, 1) \in {"-", "+"}
Unsigned(s) == IF Signed(s) THEN SubSeq(s, 2, Len(s)) ELSE s
Sign(s) == IF s # "" /\ Char(s, 1) = "-" THEN -1 ELSE 1

\* int(s) of a str: does it succeed, and its value.  "10.0" is no int.
IntOk(s) == IsDigits(Unsigned(strip(s)))
int(s) == Sign(strip(s)) * Number(Unsigned(strip(s)))

\* int(float(s)) of a decimal str: does it succeed, and its value, the
\* fraction cut off.  float(None) is a TypeError and float("None") a
\* ValueError.
FloatOk(s) ==
    LET parts == split(Unsigned(strip(s)), ".") IN
    \/ Len(parts) = 1 /\ IsDigits(parts[1])
    \/ /\ Len(parts) = 2
       /\ parts[1] = "" \/ IsDigits(parts[1])
       /\ parts[2] = "" \/ IsDigits(parts[2])
       /\ parts[1] # "" \/ parts[2] # ""
int_float(s) == Sign(strip(s)) * Number(split(Unsigned(strip(s)), ".")[1])

\* A float is modelled by its value in hundredths: 2000.0 is 200000 and
\* -4.35 is -435.  Coordinates are floats.
Hundredths == 100

\* the first two digits of a fraction text, as hundredths
Fraction(digits) ==
    IF digits = "" THEN 0
    ELSE IF Len(digits) = 1 THEN Number(digits) * 10
    ELSE Number(SubSeq(digits, 1, 2))

\* float(s) of a decimal str for which FloatOk(s)
float(s) ==
    LET parts == split(Unsigned(strip(s)), ".") IN
    Sign(strip(s)) * (Number(parts[1]) * Hundredths
                          + (IF Len(parts) = 2 THEN Fraction(parts[2]) ELSE 0))

\* f"{x}" of a float x: "2000.0", "-4.35", "0.5"
FloatStr(x) ==
    LET a == IF x < 0 THEN -x ELSE x
        f == a % Hundredths
    IN  (IF x < 0 THEN "-" ELSE "") \o ToString(a \div Hundredths) \o "."
            \o (IF f % 10 = 0 THEN ToString(f \div 10)
                ELSE IF f < 10 THEN "0" \o ToString(f) ELSE ToString(f))

\* A datetime: the day as YYYYMMDD, the second of the day, and whether it
\* carries a utc offset.  The offsets of the model are all +00:00.
DateTime(day, second, aware) == [day |-> day, second |-> second, aware |-> aware]

\* datetime.datetime.min, datetime.datetime.max
datetime_min == DateTime(10101, 0, FALSE)
datetime_max == DateTime(99991231, 86399, FALSE)

\* "YYYY-MM-DD"
IsDate(s) ==
    /\ Len(s) = 10
    /\ IsDigits(SubSeq(s, 1, 4)) /\ Char(s, 5) = "-"
    /\ IsDigits(SubSeq(s, 6, 7)) /\ Char(s, 8) = "-"
    /\ IsDigits(SubSeq(s, 9, 10))
    /\ Number(SubSeq(s, 1, 4)) >= 1
    /\ Number(SubSeq(s, 6, 7)) \in 1..12
    /\ Number(SubSeq(s, 9, 10)) \in 1..31

\* "HH:MM:SS"
IsTime(s) ==
    /\ Len(s) = 8
    /\ IsDigits(SubSeq(s, 1, 2)) /\ Char(s, 3) = ":"
    /\ IsDigits(SubSeq(s, 4, 5)) /\ Char(s, 6) = ":"
    /\ IsDigits(SubSeq(s, 7, 8))
    /\ Number(SubSeq(s, 1, 2)) \in 0..23
    /\ Number(SubSeq(s, 4, 5)) \in 0..59
    /\ Number(SubSeq(s, 7, 8)) \in 0..59

\* datetime.datetime.fromisoformat(s) succeeds: a date, a date and a time, or
\* a date and a time at +00:00
IsoOk(s) ==
    \/ IsDate(s)
    \/ /\ Len(s) \in {19, 25}
       /\ IsDate(SubSeq(s, 1, 10)) /\ Char(s, 11) = "T" /\ IsTime(SubSeq(s, 12, 19))
       /\ Len(s) = 25 => SubSeq(s, 20, 25) = "+00:00"

\* datetime.datetime.fromisoformat(s)
fromisoformat(s) ==
    DateTime(Number(SubSeq(s, 1, 4)) * 10000 + Number(SubSeq(s, 6, 7)) * 100
                 + Number(SubSeq(s, 9, 10)),
             IF Len(s) = 10 THEN 0
             ELSE Number(SubSeq(s, 12, 13)) * 3600 + Number(SubSeq(s, 15, 16)) * 60
                      + Number(SubSeq(s, 18, 19)),
             Len(s) = 25)

\* d.replace(tzinfo=datetime.timezone.utc)
replace_tzinfo_utc(d) == [d EXCEPT !.aware = TRUE]

\* a < b, a > b of two aware datetimes
Earlier(a, b) == a.day < b.day \/ (a.day = b.day /\ a.second < b.second)
Later(a, b) == Earlier(b, a)

-----------------------------------------------------------------------------
(* parse_z, parse_bbox and geometries *)

\* z that is None or "": both are falsy
NoZ == ""

\* list(range(start, start + (steps * step_len), step_len)), step_len # 0
range_list(steps, start, step_len) == [k \in 1..steps |-> start + (k - 1) * step_len]

\* parse_z(z) of a non-empty z: (ZType, list) returned, or the exception.
\* A ValueError of int() escapes the first two branches as it is and becomes
\* a ProviderQueryError in the last two.
parse_z(z) ==
    IF startswith(z, "R") /\ Len(split(z, "/")) = 3
    THEN LET interval == split(replace(z, "R", ""), "/") IN
         IF Len(interval) # 3 THEN Raise("ProviderQueryError")
         ELSE IF \E i \in 1..3 : ~IntOk(interval[i]) THEN Raise("ValueError")
         ELSE IF int(interval[3]) = 0 THEN Raise("ValueError")
         ELSE Return([ztype |-> "ENUMERATED_LIST",
                      x |-> range_list(int(interval[1]), int(interval[2]), int(interval[3]))])
    ELSE IF HasChar(z, "/") /\ Len(split(z, "/")) = 2
    THEN LET interval == split(z, "/") IN
         IF \E i \in 1..2 : ~IntOk(interval[i]) THEN Raise("ValueError")
         ELSE Return([ztype |-> "RANGE", x |-> <<int(interval[1]), int(interval[2])>>])
    ELSE IF HasChar(z, ",")
    THEN LET items == split(z, ",") IN
         IF \E i \in 1..Len(items) : ~IntOk(items[i]) THEN Raise("ProviderQueryError")
         ELSE Return([ztype |-> "ENUMERATED_LIST", x |-> [i \in 1..Len(items) |-> int(items[i])]])
    ELSE IF ~IntOk(z) THEN Raise("ProviderQueryError")
         ELSE Return([ztype |-> "SINGLE", x |-> <<int(z)>>])

\* a geometry: the point (minx, miny), the rectangle of shapely.geometry.box,
\* or an empty geometry, which is falsy
NoGeometry == [type |-> "None", minx |-> 0, miny |-> 0, maxx |-> 0, maxy |-> 0]
EmptyGeometry == [type |-> "Empty", minx |-> 0, miny |-> 0, maxx |-> 0, maxy |-> 0]
Point(x, y) == [type |-> "Point", minx |-> x, miny |-> y, maxx |-> x, maxy |-> y]
box(minx, miny, maxx, maxy) ==
    [type |-> "Polygon", minx |-> minx, miny |-> miny, maxx |-> maxx, maxy |-> maxy]

\* `if geometry`
Truthy(geometry) == geometry.type \in {"Point", "Polygon"}

\* geometry.contains(other): no point of other lies outside geometry and
\* their interiors meet.  A point must lie in the interior of a rectangle, a
\* rectangle may touch the boundary from inside, and a point contains only
\* itself.
geometry_contains(geometry, other) ==
    IF geometry.type = "Polygon" /\ other.type = "Point"
    THEN /\ geometry.minx < other.minx /\ other.minx < geometry.maxx
         /\ geometry.miny < other.miny /\ other.miny < geometry.maxy
    ELSE IF geometry.type = "Polygon" /\ other.type = "Polygon"
    THEN /\ geometry.minx <= other.minx /\ other.maxx <= geometry.maxx
         /\ geometry.miny <= other.miny /\ other.maxy <= geometry.maxy
    ELSE geometry = other

\* parse_bbox(bbox) of a non-empty bbox of texts: (box, z) returned, or the
\* exception.  `list(map(float, bbox))` comes before the count of the values,
\* and its ValueError escapes as it is.
parse_bbox(bbox) ==
    LET floats == [i \in 1..Len(bbox) |-> float(bbox[i])] IN
    IF \E i \in 1..Len(bbox) : ~FloatOk(bbox[i]) THEN Raise("ValueError")
    ELSE IF Len(bbox) = 4
    THEN Return([box |-> box(floats[1], floats[2], floats[3], floats[4]), z |-> NoZ])
    ELSE IF Len(bbox) = 6
    THEN Return([box |-> box(floats[1], floats[2], floats[4], floats[5]),
                 z |-> FloatStr(floats[3]) \o "/" \o FloatStr(floats[6])])
    ELSE Raise("ProviderQueryError")

\* the WKT texts the clients send
WKT_POLYGON == "POLYGON ((-115 38, -105 38, -105 42, -115 42, -115 38))"
WKT_POINT == "POINT (-100 35)"
WKT_EMPTY == "POINT EMPTY"
WKT_BAD == "POLYGON (("

\* shapely.wkt.loads(wkt)
wkt_loads(wkt) ==
    CASE wkt = WKT_POLYGON -> Return(box(-11500, 3800, -10500, 4200))
      [] wkt = WKT_POINT -> Return(Point(-10000, 3500))
      [] wkt = WKT_EMPTY -> Return(EmptyGeometry)
      [] OTHER -> Raise("WKTReadingError")

-----------------------------------------------------------------------------
(* LocationHelper *)

\* a record of the location collection; elevation is a str or None, and
\* int(float(.)) fails on None as it fails on the text "None"
Location(id, updateDate, elevation, x, y) ==
    [attributes |-> [_id |-> id, updateDate |-> updateDate, elevation |-> elevation,
                     locationCoordinates |-> Point(x, y)]]

\* a record whose locationCoordinates are a polygon
PolygonLocation(id, updateDate, elevation, minx, miny, maxx, maxy) ==
    [attributes |-> [_id |-> id, updateDate |-> updateDate, elevation |-> elevation,
                     locationCoordinates |-> box(minx, miny, maxx, maxy)]]

Locations ==
    {Location(1, "2024-03-29T15:49:57+00:00", "1200", -11000, 4000),
     Location(2, "2020-06-15T08:00:00+00:00", "35.7", -10000, 3500),
     Location(3, "2020-06-16T00:00:00+00:00", "None", -12000, 4500),
     Location(4, "2019-10-01T12:30:00+00:00", "-5", -11000, 3500),
     PolygonLocation(6, "2021-01-01T00:00:00+00:00", "35", -11500, 3900, -11000, 4100)}

\* data without its i-th record (i counts from 1): data.pop(i - 1)
pop(data, i) == SubSeq(data, 1, i - 1) \o SubSeq(data, i + 1, Len(data))

RECURSIVE PopWhileEnumerating(_, _, _)
\* `for i, location in enumerate(data): if <location fails>: data.pop(i)` from
\* the i-th record on: the loop walks the very list it pops from, so after a
\* pop its next record is the one two places further in the list as it was
PopWhileEnumerating(data, i, failing) ==
    IF i > Len(data) THEN data
    ELSE IF data[i] \in failing
         THEN PopWhileEnumerating(pop(data, i), i + 1, failing)
         ELSE PopWhileEnumerating(data, i + 1, failing)

\* the bound of a date range: ".." or an ISO text, a trailing Z made +00:00
Bound(text) == IF endswith(text, "Z") THEN replace(text, "Z", "+00:00") ELSE text
BoundOk(text) == text = ".." \/ IsoOk(Bound(text))
start_of(text) ==
    replace_tzinfo_utc(IF text = ".." THEN datetime_min ELSE fromisoformat(Bound(text)))
end_of(text) ==
    replace_tzinfo_utc(IF text = ".." THEN datetime_max ELSE fromisoformat(Bound(text)))

\* `updateDate < start or updateDate > end`
OutOfRange(location, start, end) ==
    LET updateDate == fromisoformat(location.attributes.updateDate) IN
    Earlier(updateDate, start) \/ Later(updateDate, end)

\* What a call of LocationHelper leaves behind: its outcome, and the records
\* of the collection it was given as the caller's reference now shows them.
Leaves(outcome, input) == [outcome |-> outcome, input |-> input]

\* filter_by_date(location_response, datetime_): filteredResp is a shallow
\* copy, so filteredResp["data"] is the list of the input itself
filter_by_date(data, datetime_) ==
    LET dateRange == split(datetime_, "/") IN
    IF data = <<>> THEN Leaves(Raise("IndexError"), data)
    ELSE IF Len(dateRange) = 2
    THEN IF ~BoundOk(dateRange[1]) \/ ~BoundOk(dateRange[2])
         THEN Leaves(Raise("ValueError"), data)
         ELSE LET start == start_of(dateRange[1])
                  end == end_of(dateRange[2])
                  failing == {l \in Locations : OutOfRange(l, start, end)}
                  left == PopWhileEnumerating(data, 1, failing)
              IN  IF Later(start, end) THEN Leaves(Raise("ProviderQueryError"), data)
                  ELSE Leaves(Return(left), left)
    ELSE IF Len(dateRange) = 1
    THEN LET failing == {l \in Locations :
                            ~startswith(l.attributes.updateDate, dateRange[1])}
             left == PopWhileEnumerating(data, 1, failing)
         IN  Leaves(Return(left), left)
    ELSE Leaves(Raise("ProviderQueryError"), data)

\* drop_location(response, location_id): a new list of the same records
drop_location(data, location_id) ==
    LET Keep(loc) == loc.attributes._id # location_id IN
    Leaves(Return(SelectSeq(data, Keep)), data)

\* data[:limit] and data[offset:], a negative index counting from the end
SliceTo(data, limit) ==
    IF limit >= 0
    THEN SubSeq(data, 1, IF limit < Len(data) THEN limit ELSE Len(data))
    ELSE SubSeq(data, 1, IF Len(data) + limit > 0 THEN Len(data) + limit ELSE 0)
SliceFrom(data, offset) ==
    IF offset >= 0
    THEN SubSeq(data, (IF offset < Len(data) THEN offset ELSE Len(data)) + 1, Len(data))
    ELSE SubSeq(data, (IF Len(data) + offset > 0 THEN Len(data) + offset ELSE 0) + 1, Len(data))

\* What a filter with the inplace switch leaves behind: without inplace it
\* works on a deep copy; with it the caller's collection is given the new list
LeavesInplace(new, data, inplace) == Leaves(Return(new), IF inplace THEN new ELSE data)

\* filter_by_limit(location_response, limit, inplace)
filter_by_limit(data, limit, inplace) == LeavesInplace(SliceTo(data, limit), data, inplace)

\* remove_before_offset(location_response, offset, inplace)
remove_before_offset(data, offset, inplace) ==
    LeavesInplace(SliceFrom(data, offset), data, inplace)

\* identifier that is None: no str(_id) equals it, as none equals "None"
NoIdentifier == "None"

\* filter_by_id(location_response, identifier, inplace)
filter_by_id(data, identifier, inplace) ==
    LET Keep(loc) == ToString(loc.attributes._id) = identifier IN
    LeavesInplace(SelectSeq(data, Keep), data, inplace)

\* `elevation < x[0] or elevation > x[1]`, `elevation != x[0]`,
\* `elevation not in x` of the match on parsed_z
ZFails(parsed_z, elevation) ==
    CASE parsed_z.ztype = "RANGE" -> elevation < parsed_z.x[1] \/ elevation > parsed_z.x[2]
      [] parsed_z.ztype = "SINGLE" -> elevation # parsed_z.x[1]
      [] parsed_z.ztype = "ENUMERATED_LIST" ->
             \A i \in 1..Len(parsed_z.x) : parsed_z.x[i] # elevation

\* Is the record at an index of indices_to_pop?
ToPop(loc, geometry, z) ==
    \/ /\ z # NoZ
       /\ \/ ~FloatOk(loc.attributes.elevation)
          \/ ZFails(parse_z(z).value, int_float(loc.attributes.elevation))
    \/ /\ Truthy(geometry)
       /\ ~geometry_contains(geometry, loc.attributes.locationCoordinates)

\* _filter_by_geometry(location_response, geometry, z): the records are popped
\* from a deep copy
filter_by_geometry(data, geometry, z) ==
    LET Keep(loc) == ~ToPop(loc, geometry, z) IN
    IF z # NoZ /\ parse_z(z).kind = "raise"
    THEN Leaves(parse_z(z), data)
    ELSE Leaves(Return(SelectSeq(data, Keep)), data)

\* wkt that is None or "": both are falsy
NoWkt == ""

\* filter_by_wkt(location_response, wkt, z)
filter_by_wkt(data, wkt, z) ==
    LET parsed_geo == IF wkt # NoWkt THEN wkt_loads(wkt) ELSE Return(NoGeometry) IN
    IF parsed_geo.kind = "raise" THEN Leaves(parsed_geo, data)
    ELSE filter_by_geometry(data, parsed_geo.value, z)

\* filter_by_bbox(location_response, bbox, z): with a bbox, z is the one
\* parse_bbox gives, whatever z the caller passed
filter_by_bbox(data, bbox, z) ==
    IF bbox = <<>> THEN filter_by_geometry(data, NoGeometry, z)
    ELSE LET parse_result == parse_bbox(bbox) IN
         IF parse_result.kind = "raise" THEN Leaves(parse_result, data)
         ELSE filter_by_geometry(data, parse_result.value.box, parse_result.value.z)

\* a client calls a filter on the collection it holds
Called(name, args, r) ==
    /\ given' = location_response
    /\ location_response' = r.input
    /\ filtered' = r.outcome
    /\ last' = [op |-> name, args |-> args]
    /\ UNCHANGED <<cacheVars, mergeVars, storeVars>>

FilterByDate(datetime_) ==
    Called("filter_by_date", [datetime_ |-> datetime_, inplace |-> FALSE],
           filter_by_date(location_response, datetime_))

DropLocation(location_id) ==
    Called("drop_location", [location_id |-> location_id, inplace |-> FALSE],
           drop_location(location_response, location_id))

FilterByLimit(limit, inplace) ==
    Called("filter_by_limit", [limit |-> limit, inplace |-> inplace],
           filter_by_limit(location_response, limit, inplace))

RemoveBeforeOffset(offset, inplace) ==
    Called("remove_before_offset", [offset |-> offset, inplace |-> inplace],
           remove_before_offset(location_response, offset, inplace))

FilterById(identifier, inplace) ==
    Called("filter_by_id", [identifier |-> identifier, inplace |-> inplace],
           filter_by_id(location_response, identifier, inplace))

FilterByWkt(wkt, z) ==
    Called("filter_by_wkt", [wkt |-> wkt, z |-> z, inplace |-> FALSE],
           filter_by_wkt(location_response, wkt, z))

FilterByBbox(bbox, z) ==
    Called("filter_by_bbox", [bbox |-> bbox, z |-> z, inplace |-> FALSE],
           filter_by_bbox(location_response, bbox, z))

-----------------------------------------------------------------------------
(* The filters under their clients *)

\* the collections of at most MaxLocs records, no record twice
Collections ==
    {l \in UNION {[1..n -> Locations] : n \in 0..MaxLocs} :
        \A i, j \in 1..Len(l) : l[i] = l[j] => i = j}

\* the datetime arguments: single values, ranges open and closed, a range
\* ending at a record's own timestamp, and malformed ones
DateQueries ==
    {"2020-06", "2024-03-29T15:49:57+00:00", "",
     "2020-06-15/..", "../2020-06-15T08:00:00Z", "2020-06-15T08:00:00Z/2020-06-16",
     "2020-01-01/2024-12-31T23:59:59", "2024-01-01/2020-01-01",
     "yesterday/..", "2020/06/15"}

\* the z arguments: a value, a range, a list, an interval, and malformed ones
ZQueries == {NoZ, "1200", "0/1200", "35, 1200", "R2/-5/40", "R2/0/0", "high", "a/b", "1/2/3"}

WktQueries == {NoWkt, WKT_POLYGON, WKT_POINT, WKT_EMPTY, WKT_BAD}

\* the bbox arguments: none, 4 values, 6 values, and malformed ones
BboxQueries ==
    {<<>>, <<"-115.0", "38.0", "-104.35", "42.0">>,
     <<"-115", "30", "0", "-95", "42", "2000">>,
     <<"-115", "38", "-105">>, <<"-115", "38", "east", "42">>}

InitFilter ==
    /\ InitCache
    /\ MergeIdle
    /\ StoreIdle
    /\ location_response \in Collections
    /\ given = location_response
    /\ filtered = NoResult
    /\ last = NoCall

NextFilter ==
    \/ \E datetime_ \in DateQueries : FilterByDate(datetime_)
    \/ \E location_id \in 1..5 : DropLocation(location_id)
    \/ \E limit \in -1..MaxLocs, inplace \in BOOLEAN : FilterByLimit(limit, inplace)
    \/ \E offset \in -1..MaxLocs, inplace \in BOOLEAN : RemoveBeforeOffset(offset, inplace)
    \/ \E identifier \in {"1", "2", "5", NoIdentifier}, inplace \in BOOLEAN :
           FilterById(identifier, inplace)
    \/ \E wkt \in WktQueries, z \in ZQueries : FilterByWkt(wkt, z)
    \/ \E bbox \in BboxQueries, z \in {NoZ, "1200", "35"} : FilterByBbox(bbox, z)

SpecFilter == InitFilter /\ [][NextFilter]_vars

-----------------------------------------------------------------------------
(* Properties of the filters *)

\* the date predicate: for a range, start <= updateDate <= end with ".." an
\* open bound; for a single value, the timestamp text starts with it
SatisfiesDate(location, datetime_) ==
    LET dateRange == split(datetime_, "/")
        updateDate == fromisoformat(location.attributes.updateDate)
    IN  IF Len(dateRange) = 2
        THEN /\ ~Earlier(updateDate, start_of(dateRange[1]))
             /\ ~Earlier(end_of(dateRange[2]), updateDate)
        ELSE startswith(location.attributes.updateDate, datetime_)

\* C9: a call of a filter (without inplace) leaves the collection it was given
\* unchanged: the records the caller reaches through its reference after the
\* call are the records it reached before.
C9_FiltersLeaveInputUnchanged ==
    (last.op # "none" /\ ~last.args.inplace) => location_response = given

\* C10: filter_by_date of a non-empty collection returns exactly the records
\* that satisfy the date predicate, in their order: no other record survives.
C10_DateFilterKeepsExactlyTheMatching ==
    (last.op = "filter_by_date" /\ given # <<>> /\ filtered.kind = "return") =>
        LET Keep(loc) == SatisfiesDate(loc, last.args.datetime_) IN
        filtered.value = SelectSeq(given, Keep)

-----------------------------------------------------------------------------
(* Properties of the z and bbox parsers *)

AllInts(items) == \A i \in 1..Len(items) : IntOk(items[i])

\* a z text of one of the four forms: a value, lo/hi, a list v1,v2,..., or
\* the interval R<count>/<start>/<step>
WellFormedZ(z) ==
    \/ IntOk(z)
    \/ Len(split(z, "/")) = 2 /\ AllInts(split(z, "/"))
    \/ ~HasChar(z, "/") /\ Len(split(z, ",")) >= 2 /\ AllInts(split(z, ","))
    \/ /\ startswith(z, "R") /\ Len(split(z, "/")) = 3
       /\ AllInts(split(SubSeq(z, 2, Len(z)), "/"))

MalformedZ(z) == z # NoZ /\ ~WellFormedZ(z)

\* a bbox whose values are not 4 or 6 in number, or not all numbers
MalformedBbox(bbox) ==
    /\ bbox # <<>>
    /\ Len(bbox) \notin {4, 6} \/ \E i \in 1..Len(bbox) : ~FloatOk(bbox[i])

\* C11: a malformed z or a malformed bbox makes filter_by_wkt and
\* filter_by_bbox fail with a ProviderQueryError and with no other error.
C11_MalformedIsQueryError ==
    /\ (/\ last.op = "filter_by_wkt" /\ MalformedZ(last.args.z)
        /\ last.args.wkt = NoWkt \/ wkt_loads(last.args.wkt).kind = "return")
           => filtered = Raise("ProviderQueryError")
    /\ (last.op = "filter_by_bbox" /\ MalformedBbox(last.args.bbox))
           => filtered = Raise("ProviderQueryError")
    /\ (last.op = "filter_by_bbox" /\ last.args.bbox = <<>> /\ MalformedZ(last.args.z))
           => filtered = Raise("ProviderQueryError")

-----------------------------------------------------------------------------
(* Properties of the geometry and z filter *)

\* a bbox of 6 numbers
WellFormedBbox6(bbox) == Len(bbox) = 6 /\ \A i \in 1..6 : FloatOk(bbox[i])

\* the location lies in the planar box of a 6-value bbox, and its elevation
\* in the range from the 3rd to the 6th value, both ends included
InBbox6(loc, bbox) ==
    LET at == loc.attributes.locationCoordinates
        elevation == loc.attributes.elevation
    IN  /\ float(bbox[1]) < at.minx /\ at.maxx < float(bbox[4])
        /\ float(bbox[2]) < at.miny /\ at.maxy < float(bbox[5])
        /\ FloatOk(elevation)
        /\ float(bbox[3]) <= int_float(elevation) * Hundredths
        /\ int_float(elevation) * Hundredths <= float(bbox[6])

\* C12: filter_by_bbox with a well-formed 6-value bbox succeeds and keeps
\* exactly the locations inside the planar box whose elevation lies in the
\* inclusive range minz/maxz of the bbox.
C12_Bbox6FiltersByBoxAndElevation ==
    (last.op = "filter_by_bbox" /\ WellFormedBbox6(last.args.bbox)) =>
        LET Keep(loc) == InBbox6(loc, last.args.bbox) IN
        /\ filtered.kind = "return"
        /\ filtered.value = SelectSeq(given, Keep)

\* the integer elevation matches a well-formed z: equal to the value, within
\* lo..hi, one of the list, or one of start, start+step, ... (count values)
MatchesZ(elevation, z) ==
    LET parts == split(z, "/")
        items == split(z, ",")
        interval == split(SubSeq(z, 2, Len(z)), "/")
    IN  IF IntOk(z) THEN elevation = int(z)
        ELSE IF Len(parts) = 2 THEN int(parts[1]) <= elevation /\ elevation <= int(parts[2])
        ELSE IF Len(parts) = 3
        THEN \E k \in 0..(int(interval[1]) - 1) : elevation = int(interval[2]) + k * int(interval[3])
        ELSE \E i \in 1..Len(items) : elevation = int(items[i])

\* the location has an elevation and it matches z
ElevationMatches(loc, z) ==
    /\ FloatOk(loc.attributes.elevation)
    /\ MatchesZ(int_float(loc.attributes.elevation), z)

\* a bbox of 4 numbers
WellFormedBbox4(bbox) == Len(bbox) = 4 /\ \A i \in 1..4 : FloatOk(bbox[i])

\* C13: when z is given to filter_by_bbox together with a 4-value bbox, no
\* location whose elevation does not match z, or is missing, is in the result.
C13_ExplicitZFiltersWithBbox4 ==
    (/\ last.op = "filter_by_bbox" /\ WellFormedBbox4(last.args.bbox)
     /\ last.args.z # NoZ /\ WellFormedZ(last.args.z)
     /\ filtered.kind = "return")
        => \A i \in 1..Len(filtered.value) : ElevationMatches(filtered.value[i], last.args.z)

\* the geometry a wkt text supplies
Supplied(wkt) == wkt_loads(wkt).value

\* the location passes the geometry/z filter with the arguments wkt and z
PassesGeometryAndZ(loc, wkt, z) ==
    /\ wkt = NoWkt \/ geometry_contains(Supplied(wkt), loc.attributes.locationCoordinates)
    /\ z = NoZ \/ ElevationMatches(loc, z)

\* C14: with a readable geometry and a well-formed z, the geometry/z filter
\* keeps, in their order, exactly the locations that the supplied geometry
\* contains (if one is supplied) and whose integer elevation matches z (if one
\* is supplied); a location without a readable elevation is dropped under z.
C14_GeometryAndZFilter ==
    (/\ last.op = "filter_by_wkt"
     /\ last.args.wkt = NoWkt \/ wkt_loads(last.args.wkt).kind = "return"
     /\ last.args.z = NoZ \/ WellFormedZ(last.args.z))
        => LET Keep(loc) == PassesGeometryAndZ(loc, last.args.wkt, last.args.z) IN
           filtered = Return(SelectSeq(given, Keep))

-----------------------------------------------------------------------------
(* Catalog items: the remote's payloads and a whole run of get_or_fetch_group *)

\* a parameterName that is null or "": both are falsy
NoName == ""

\* a catalog item as a location refers to it: its id stands for the whole stub
CatalogItemStub(n) == [id |-> "/rise/api/catalog-item/" \o ToString(n)]

\* url = "https://data.usbr.gov" + catalogItem["id"]
CatalogItemUrl(catalogItem) == "https://data.usbr.gov" \o catalogItem.id

\* url.split("/")[-1]
get_trailing_id(url) == split(url, "/")[Len(split(url, "/"))]

\* f"https://data.usbr.gov/rise/api/result?itemId={get_trailing_id(url)}"
getResultUrlFromCatalogUrl(url) ==
    "https://data.usbr.gov/rise/api/result?itemId=" \o get_trailing_id(url)

\* the parameter a catalog item measures: item n measures parameter n + 2
ParameterOf(url) == Number(get_trailing_id(url)) + 2

\* the body of a catalog item, fully resolved
CatalogItemBody(url) ==
    [data |-> [id |-> SubSeq(url, Len("https://data.usbr.gov") + 1, Len(url)),
               attributes |-> [parameterName |-> "Flow", parameterId |-> ParameterOf(url)]]]

\* bodies that lack an expected field, or whose parameterName is null
WithoutParameterId(url) ==
    [data |-> [id |-> CatalogItemBody(url).data.id, attributes |-> [parameterName |-> "Flow"]]]
WithoutParameterName(url) ==
    [data |-> [id |-> CatalogItemBody(url).data.id,
               attributes |-> [parameterId |-> ParameterOf(url)]]]
WithoutAttributes(url) == [data |-> [id |-> CatalogItemBody(url).data.id]]
WithoutData(url) == [title |-> "An error occurred", detail |-> "Not Found"]
Unnamed(url) ==
    [data |-> [id |-> CatalogItemBody(url).data.id,
               attributes |-> [parameterName |-> NoName, parameterId |-> ParameterOf(url)]]]

\* one observation of a result page
Observation(result, dateTime) == [attributes |-> [result |-> result, dateTime |-> dateTime]]

\* the bodies of a result url: observations, none, or no data at all
ResultBodies(url) ==
    {[data |-> <<Observation(15, "2024-01-01T00:00:00+00:00"),
                 Observation(17, "2024-01-02T00:00:00+00:00")>>],
     [data |-> <<>>],
     WithoutData(url)}

IsResultUrl(url) == startswith(url, "https://data.usbr.gov/rise/api/result")

\* the parameter catalogue of the remote, and its pages
PARAMETER_API == "https://data.usbr.gov/rise/api/parameter"
IsParameterUrl(url) == startswith(url, PARAMETER_API)

\* a record of the parameter catalogue
ParameterRecord(n) ==
    [attributes |-> [_id |-> n, parameterName |-> "Flow", parameterUnit |-> "cfs",
                     parameterDescription |-> "Daily flow"]]

\* the catalogue: the parameters of the two catalog items and one that no
\* item measures.  It fits one page, and the collection and its page 1 have
\* the same body.
ParameterPage ==
    [meta |-> [totalItems |-> 3],
     data |-> <<ParameterRecord(3), ParameterRecord(4), ParameterRecord(5)>>]

\* What the remote may answer to a GET of a catalog item, of its results or of
\* the parameter catalogue: the first item answers with its body, with a body short of one field, or
\* with no JSON; the second with its body, a JSON error, or a body short of
\* more.
CatalogResponses(url) ==
    LET bodies ==
            IF IsResultUrl(url) THEN ResultBodies(url)
            ELSE IF IsParameterUrl(url) THEN {ParameterPage}
            ELSE IF get_trailing_id(url) = "1"
            THEN {CatalogItemBody(url), WithoutParameterId(url), Unnamed(url)}
            ELSE {CatalogItemBody(url), WithoutAttributes(url), WithoutParameterName(url)}
    IN  {[status |-> 200, json |-> TRUE, body |-> b] : b \in bodies}
            \cup {[status |-> 404, json |-> TRUE, body |-> WithoutData(url)]}
            \cup (IF get_trailing_id(url) = "1"
                  THEN {[status |-> 502, json |-> FALSE, body |-> TextBody(url)]}
                  ELSE {})

RECURSIVE GroupLoop(_, _, _, _, _, _)
\* The loop of fetch_url_group from its n-th iteration on, run to its end: the
\* set of the outcomes it may have, each with the store it leaves.  Any pending
\* task may complete next, with any answer of the remote; GroupStep is one
\* iteration of it.
GroupLoop(c, nc, lf, res, pending, n) ==
    IF pending = {} THEN {[ret |-> Return(GroupResult(lf, res)), cache |-> c]}
    ELSE LET Completes(i, resp) ==
                 LET r == fetch_url(resp)
                     url == ZipUrl(nc, n, i)
                 IN  IF r.kind = "raise" THEN {[ret |-> Raise(r.exc), cache |-> c]}
                     ELSE {[ret |-> Raise("dbm.error"), cache |-> c]}
                              \cup GroupLoop(set(c, url, r.value), nc, lf,
                                             DictSet(res, url, r.value), pending \ {i}, n + 1)
         IN  UNION {UNION {Completes(i, resp) : resp \in CatalogResponses(nc[i])} : i \in pending}

\* asyncio.run(RISECache.get_or_fetch_group(urls)): the outcomes it may have,
\* each with the store it leaves and the GETs it sent (one per task created)
RunGroup(c, urls) ==
    LET nc == UrlsNotInCache(c, urls, FALSE)
        lf == LocalFetch(c, UrlsInCache(c, urls, FALSE))
        outcomes == GroupLoop(c, nc, lf, Placeholders(nc), 1..Len(nc), 1)
    IN  {[ret |-> o.ret, cache |-> o.cache, requests |-> nc] : o \in outcomes}

\* asyncio.run(RISECache.get_or_fetch(url)): the shelf is written through the
\* handle the call holds
RunGetOrFetch(c, url) ==
    IF ~MustFetch(c, url, FALSE)
    THEN {[ret |-> Return(get(c, url)), cache |-> c, requests |-> <<>>]}
    ELSE {LET r == fetch_url(resp) IN
          IF r.kind = "raise" THEN [ret |-> Raise(r.exc), cache |-> c, requests |-> <<url>>]
          ELSE [ret |-> Return(r.value), cache |-> set(c, url, r.value), requests |-> <<url>>]
          : resp \in CatalogResponses(url)}

\* RISECache.get_or_fetch_all_pages(url): the first response, then the pages
\* as a group
get_or_fetch_all_pages(c, url) ==
    LET Then(o) ==
            IF o.ret.kind = "raise" THEN {o}
            ELSE IF NOT_PAGINATED(o.ret.value)
            THEN {[o EXCEPT !.ret = Return(<<[k |-> url, v |-> o.ret.value]>>)]}
            ELSE {[q EXCEPT !.requests = o.requests \o q.requests]
                  : q \in RunGroup(o.cache, PageUrls(url, o.ret.value))}
    IN  UNION {Then(o) : o \in RunGetOrFetch(c, url)}

\* fields[str(param["_id"])] = {...} for the items of res["data"]
Fields(data) ==
    DictFromKeys(EmptyDict, [j \in 1..Len(data) |-> ToString(data[j].attributes._id)],
        [f \in {ToString(data[j].attributes._id) : j \in 1..Len(data)} |->
            LET param == data[CHOOSE j \in 1..Len(data) :
                                  /\ ToString(data[j].attributes._id) = f
                                  /\ \A l \in (j + 1)..Len(data) :
                                         ToString(data[l].attributes._id) # f].attributes
            IN  [type |-> param.parameterUnit, title |-> param.parameterName,
                 description |-> param.parameterDescription,
                 x_ogc_unit |-> param.parameterUnit]])

\* RISECache.get_parameters() from the merged pages on
FieldsOf(ps) ==
    LET res == merge_pages(ps).outcome IN
    IF res.kind = "raise" THEN res
    ELSE IF res.value[1].k = NoneKey THEN Raise("ProviderConnectionError")
    ELSE IF "data" \notin DOMAIN res.value[1].v THEN Raise("KeyError")
    ELSE Return(Fields(res.value[1].v.data))

\* RISECache.get_parameters(): {id: {type, title, description, x-ogc-unit}}
cache_get_parameters(c) ==
    {[o EXCEPT !.ret = IF o.ret.kind = "raise" THEN o.ret ELSE FieldsOf(o.ret.value)]
     : o \in get_or_fetch_all_pages(c, PARAMETER_API)}

-----------------------------------------------------------------------------
(* LocationHelper over the catalog items of its locations *)

\* a location as the location endpoint returns it: its id, its attributes and
\* its relationships, which may lack catalogItems
CatalogLocation(loc, catalogItems) ==
    [id |-> "/rise/api/location/" \o ToString(loc.attributes._id),
     attributes |-> loc.attributes,
     relationships |-> [catalogItems |-> [data |-> catalogItems]]]
BareLocation(loc) ==
    [id |-> "/rise/api/location/" \o ToString(loc.attributes._id),
     attributes |-> loc.attributes,
     relationships |-> [locationParent |-> [data |-> <<>>]]]

\* id.removeprefix(prefix)
removeprefix(s, prefix) ==
    IF startswith(s, prefix) THEN SubSeq(s, Len(prefix) + 1, Len(s)) ELSE s

\* loc["relationships"]["catalogItems"]["data"] raises no KeyError
HasCatalogItems(loc) == "catalogItems" \in DOMAIN loc.relationships

\* the catalog items of a location as get_catalogItemURLs lists them: the
\* urls, or [] after the KeyError
CatalogItemUrlsOf(loc) ==
    IF HasCatalogItems(loc)
    THEN LET items == loc.relationships.catalogItems.data IN
         [j \in 1..Len(items) |-> CatalogItemUrl(items[j])]
    ELSE <<>>

RECURSIVE get_catalogItemURLs_from(_, _)
get_catalogItemURLs_from(lookup, data) ==
    IF data = <<>> THEN lookup
    ELSE get_catalogItemURLs_from(
             DictSet(lookup, removeprefix(Head(data).id, "/rise/api/location/"),
                     CatalogItemUrlsOf(Head(data))),
             Tail(data))

\* get_catalogItemURLs(location_response): {locationNumber: [url, ...]}
get_catalogItemURLs(data) == get_catalogItemURLs_from(EmptyDict, data)

RECURSIVE flatten_values(_)
\* flatten_values(input): the lists of the dict one after the other
flatten_values(input) ==
    IF input = <<>> THEN <<>> ELSE Head(input).v \o flatten_values(Tail(input))

\* CatalogItem.get_parameter(data) is not None: no KeyError on the way to
\* parameterId, and a truthy parameterName.  A KeyError is logged and None
\* returned.
HasParameter(item) ==
    /\ "data" \in DOMAIN item
    /\ "attributes" \in DOMAIN item.data
    /\ "parameterName" \in DOMAIN item.data.attributes
    /\ item.data.attributes.parameterName # NoName
    /\ "parameterId" \in DOMAIN item.data.attributes

\* CatalogItem.get_parameter(data) when it is not None
get_parameter(item) ==
    [id |-> ToString(item.data.attributes.parameterId),
     name |-> item.data.attributes.parameterName]

\* allParams of get_parameters for the items of one location: get_parameter
\* raises nothing, so the `except KeyError` around the loop is never entered
allParams(urlItemMapper) ==
    LET Resolved(e) == HasParameter(e.v)
        found == SelectSeq(urlItemMapper, Resolved)
    IN  [j \in 1..Len(found) |-> get_parameter(found[j].v).id]

RECURSIVE get_parameters_from(_, _, _, _)
\* the loop of get_parameters over the locations left, one
\* asyncio.run(get_or_fetch_group) for each: the outcomes it may have
get_parameters_from(c, entries, locationToParams, requests) ==
    IF entries = <<>>
    THEN {[ret |-> Return(locationToParams), cache |-> c, requests |-> requests]}
    ELSE UNION {
        IF o.ret.kind = "raise"
        THEN {[ret |-> o.ret, cache |-> o.cache, requests |-> requests \o o.requests]}
        ELSE get_parameters_from(o.cache, Tail(entries),
                                 DictSet(locationToParams, Head(entries).k,
                                         allParams(o.ret.value)),
                                 requests \o o.requests)
        : o \in RunGroup(c, Head(entries).v)}

\* LocationHelper.get_parameters(allLocations)
get_parameters(c, data) ==
    get_parameters_from(c, get_catalogItemURLs(data), EmptyDict, <<>>)

\* `param not in paramList`
NotIn(param, paramList) == \A j \in 1..Len(paramList) : paramList[j] # param

RECURSIVE DropWithout(_, _, _)
\* `for location, paramList in locationsToParams.items(): if param not in
\* paramList: response = drop_location(response, int(location))`
DropWithout(data, param, entries) ==
    IF entries = <<>> THEN Return(data)
    ELSE IF ~NotIn(param, Head(entries).v) THEN DropWithout(data, param, Tail(entries))
    ELSE IF ~IntOk(Head(entries).k) THEN Raise("ValueError")
    ELSE DropWithout(drop_location(data, int(Head(entries).k)).outcome.value, param,
                     Tail(entries))

RECURSIVE DropForEach(_, _, _)
\* `for param in list_of_properties`
DropForEach(data, list_of_properties, locationsToParams) ==
    IF list_of_properties = <<>> THEN Return(data)
    ELSE LET dropped == DropWithout(data, Head(list_of_properties), locationsToParams) IN
         IF dropped.kind = "raise" THEN dropped
         ELSE DropForEach(dropped.value, Tail(list_of_properties), locationsToParams)

\* filter_by_properties that looks at the first property only
filter_by_properties_first(c, data, select_properties) ==
    {[ret |-> IF o.ret.kind = "raise" THEN o.ret
              ELSE DropForEach(data, IF select_properties = <<>> THEN <<>>
                                     ELSE <<Head(select_properties)>>, o.ret.value),
      cache |-> o.cache, requests |-> o.requests] : o \in get_parameters(c, data)}

\* filter_by_properties(response, select_properties), select_properties a list
filter_by_properties(c, data, select_properties) ==
    {[ret |-> IF o.ret.kind = "raise" THEN o.ret
              ELSE DropForEach(data, select_properties, o.ret.value),
      cache |-> o.cache, requests |-> o.requests] : o \in get_parameters(c, data)}

\* results[associated_res_url].get("data", None); None and [] are not told
\* apart by the reader of the results
NoResults == <<>>
results_get_data(payload) == IF "data" \in DOMAIN payload THEN payload.data ELSE NoResults

\* base_catalog_item_j["results"] = results_for_catalog_item_j
WithResults(item, results_for_item) ==
    [f \in DOMAIN item \cup {"results"} |-> IF f = "results" THEN results_for_item ELSE item[f]]

\* One catalog item of the loop of fill_catalogItems: the fetched data in its
\* place, with its results if asked for; the stub itself after the KeyError.
FilledItem(catalogitem, catalogItemUrlToResponse, results_, add_results) ==
    LET url == CatalogItemUrl(catalogitem) IN
    IF ~DictHas(catalogItemUrlToResponse, url) THEN catalogitem
    ELSE IF "data" \notin DOMAIN DictGet(catalogItemUrlToResponse, url) THEN catalogitem
    ELSE LET fetchedData == DictGet(catalogItemUrlToResponse, url).data IN
         IF add_results
         THEN WithResults(fetchedData,
                          results_get_data(DictGet(results_, getResultUrlFromCatalogUrl(url))))
         ELSE fetchedData

\* location["relationships"]["catalogItems"]["data"]
ItemsOf(location) == location.relationships.catalogItems.data

\* The loop of fill_catalogItems over new["data"]: a location without
\* catalogItems ends it with the KeyError of
\* location["relationships"]["catalogItems"], which nothing catches.
FillLoop(data, catalogItemUrlToResponse, results_, add_results) ==
    IF \E i \in 1..Len(data) : ~HasCatalogItems(data[i]) THEN Raise("KeyError")
    ELSE Return([i \in 1..Len(data) |->
            LET items == data[i].relationships.catalogItems.data IN
            [data[i] EXCEPT !.relationships.catalogItems.data =
                [j \in 1..Len(items) |->
                    FilledItem(items[j], catalogItemUrlToResponse, results_, add_results)]]])

\* fill_catalogItems(response, add_results): one group fetch of the catalog
\* items of all locations, flattened; with add_results the assert on the
\* result urls and a second group fetch; then the loop
fill_catalogItems(c, data, add_results) ==
    LET catalogItemUrls == flatten_values(get_catalogItemURLs(data))
        resultUrls == [j \in 1..Len(catalogItemUrls) |->
                          getResultUrlFromCatalogUrl(catalogItemUrls[j])]
        Then(o) ==
            IF o.ret.kind = "raise" THEN {o}
            ELSE IF ~add_results
            THEN {[ret |-> FillLoop(data, o.ret.value, EmptyDict, FALSE),
                   cache |-> o.cache, requests |-> o.requests]}
            ELSE IF Len(resultUrls) # Cardinality({resultUrls[j] : j \in 1..Len(resultUrls)})
            THEN {[ret |-> Raise("AssertionError"), cache |-> o.cache, requests |-> o.requests]}
            ELSE {[ret |-> IF q.ret.kind = "raise" THEN q.ret
                           ELSE FillLoop(data, o.ret.value, q.ret.value, TRUE),
                   cache |-> q.cache, requests |-> o.requests \o q.requests]
                  : q \in RunGroup(o.cache, resultUrls)}
    IN  UNION {Then(o) : o \in RunGroup(c, catalogItemUrls)}

\* _fields_to_covjson(only_include_ids) from the fields on: an empty list of
\* ids is falsy and filters nothing
fields_to_covjson(fieldsToGeoJsonOutput, only_include_ids) ==
    LET Included(e) == ~(only_include_ids # <<>> /\ NotIn(e.k, only_include_ids))
        included == SelectSeq(fieldsToGeoJsonOutput, Included)
    IN  [j \in 1..Len(included) |->
            [k |-> included[j].k,
             v |-> [type |-> "Parameter",
                    description |-> [en |-> included[j].v.description],
                    unit |-> [symbol |-> included[j].v.x_ogc_unit],
                    observedProperty |-> [id |-> included[j].k,
                                          label |-> [en |-> included[j].v.title]]]]]

\* str(param["attributes"]["parameterId"]) and param["results"] raise no
\* KeyError
Readable(param) ==
    /\ "attributes" \in DOMAIN param
    /\ "parameterId" \in DOMAIN param.attributes
    /\ "results" \in DOMAIN param

\* results and times of a parameter: those of its observations, or [] and []
ResultsOf(param) ==
    [j \in 1..Len(param.results) |-> param.results[j].attributes.result]
TimesOf(param) ==
    [j \in 1..Len(param.results) |-> param.results[j].attributes.dateTime]

\* the CoverageRange of a parameter
CoverageRange(param) ==
    [axisNames |-> <<"t">>, dataType |-> "float", shape |-> <<Len(ResultsOf(param))>>,
     values |-> ResultsOf(param), type |-> "NdArray"]

RECURSIVE ParamToCoverage(_, _)
\* paramToCoverage of a location once its loop has ended: one dict for the
\* location, a key for each parameter id
ParamToCoverage(paramToCoverage, params) ==
    IF params = <<>> THEN paramToCoverage
    ELSE ParamToCoverage(
             DictSet(paramToCoverage, ToString(Head(params).attributes.parameterId),
                     CoverageRange(Head(params))),
             Tail(params))

\* The coverage appended for a parameter of a location.  Its "ranges" is the
\* dict paramToCoverage of the location itself, not a copy: it shows every
\* key the loop over the location has set by its end.
Coverage(location_feature, param) ==
    LET coordinates == location_feature.attributes.locationCoordinates
        ranges == ParamToCoverage(EmptyDict, location_feature.relationships.catalogItems.data)
    IN  IF coordinates.type = "Point"
        THEN [type |-> "Coverage", domainType |-> "PointSeries",
              domain |-> [type |-> "Domain",
                          axes |-> [x |-> [values |-> <<coordinates.minx>>],
                                    y |-> [values |-> <<coordinates.miny>>],
                                    t |-> [values |-> TimesOf(param)]]],
              ranges |-> ranges]
        ELSE [type |-> "Coverage", domainType |-> "PolygonSeries",
              domain |-> [type |-> "Domain",
                          axes |-> [composite |-> [dataType |-> coordinates.type,
                                                   coordinates |-> <<"x", "y">>,
                                                   values |-> <<<<coordinates>>>>],
                                    t |-> [values |-> TimesOf(param)]]],
              ranges |-> ranges]

RECURSIVE AllCoverages(_)
\* allCoverages: a coverage for every parameter of every location, in order
AllCoverages(data) ==
    IF data = <<>> THEN <<>>
    ELSE LET params == Head(data).relationships.catalogItems.data IN
         [j \in 1..Len(params) |-> Coverage(Head(data), params[j])] \o AllCoverages(Tail(data))

\* relevant_fields: the parameter id of every catalog item, repeats included
RelevantFields(data) ==
    LET params == flatten_values([i \in 1..Len(data) |->
                      [k |-> i, v |-> data[i].relationships.catalogItems.data]])
    IN  [j \in 1..Len(params) |-> ToString(params[j].attributes.parameterId)]

\* to_covjson(location_response): fill_catalogItems with the results, the loop
\* over the expanded collection, then the parameters; "referencing" is the
\* same in every CoverageCollection and left out
to_covjson(c, data) ==
    LET Then(o) ==
            IF o.ret.kind = "raise" THEN {o}
            ELSE IF \E i \in 1..Len(o.ret.value) :
                        \E j \in 1..Len(ItemsOf(o.ret.value[i])) :
                            ~Readable(ItemsOf(o.ret.value[i])[j])
            THEN {[o EXCEPT !.ret = Raise("KeyError")]}
            ELSE {[ret |-> IF q.ret.kind = "raise" THEN q.ret
                           ELSE Return([type |-> "CoverageCollection",
                                        parameters |->
                                            fields_to_covjson(q.ret.value,
                                                              RelevantFields(o.ret.value)),
                                        coverages |-> AllCoverages(o.ret.value)]),
                   cache |-> q.cache, requests |-> o.requests \o q.requests]
                  : q \in cache_get_parameters(o.cache)}
    IN  UNION {Then(o) : o \in fill_catalogItems(c, data, TRUE)}

\* a client calls a helper that goes through the store; the collection it
\* handed over is left as it was
Fetching(name, args, outcomes) ==
    \E o \in outcomes :
        /\ cache' = o.cache
        /\ given' = location_response
        /\ location_response' = location_response
        /\ filtered' = o.ret
        /\ last' = [op |-> name, args |-> args, requests |-> o.requests]
        /\ UNCHANGED <<pc, call, ret, tasks, urls_not_in_cache, local_fetch, results,
                       single, prev, mergeVars, storeVars>>

\* a call with the collection as its only argument
NoArgs == <<>>

GetParameters ==
    Fetching("get_parameters", NoArgs, get_parameters(cache, location_response))

FilterByProperties(select_properties) ==
    Fetching("filter_by_properties", [select_properties |-> select_properties],
             filter_by_properties(cache, location_response, select_properties))

FillCatalogItems(add_results) ==
    Fetching("fill_catalogItems", [add_results |-> add_results],
             fill_catalogItems(cache, location_response, add_results))

ToCovjson ==
    Fetching("to_covjson", NoArgs, to_covjson(cache, location_response))

-----------------------------------------------------------------------------
(* The catalog helpers under their clients *)

\* the locations: a point with two catalog items, a polygon that shares one
\* of them, and a location without catalogItems
CatalogLocations ==
    {CatalogLocation(Location(1, "2024-03-29T15:49:57+00:00", "1200", -11000, 4000),
                     <<CatalogItemStub(1), CatalogItemStub(2)>>),
     CatalogLocation(PolygonLocation(6, "2021-01-01T00:00:00+00:00", "35",
                                     -11500, 3900, -11000, 4100),
                     <<CatalogItemStub(1)>>),
     BareLocation(Location(3, "2020-06-16T00:00:00+00:00", "None", -12000, 4500))}

\* the collections of at most MaxCatalogLocs of them, none twice
CatalogCollections ==
    {l \in UNION {[1..n -> CatalogLocations] : n \in 0..MaxCatalogLocs} :
        \A i, j \in 1..Len(l) : l[i] = l[j] => i = j}

\* the properties a client selects: ids that items have and one that none has
PropertyQueries == {<<>>, <<"3">>, <<"4">>, <<"3", "4">>, <<"99">>}

InitCatalog ==
    /\ InitCache
    /\ MergeIdle
    /\ StoreIdle
    /\ location_response \in CatalogCollections
    /\ given = location_response
    /\ filtered = NoResult
    /\ last = NoCall

NextCatalog ==
    \/ GetParameters
    \/ \E select_properties \in PropertyQueries : FilterByProperties(select_properties)
    \/ \E add_results \in BOOLEAN : FillCatalogItems(add_results)

SpecCatalog == InitCatalog /\ [][NextCatalog]_vars

-----------------------------------------------------------------------------
(* Properties of the catalog helpers *)

\* the parameter ids resolved for a location: those of the bodies the store
\* holds for its catalog items
ResolvedIds(loc) ==
    LET urls == CatalogItemUrlsOf(loc)
        named == {j \in 1..Len(urls) : urls[j] \in DOMAIN cache /\ HasParameter(cache[urls[j]])}
    IN  {ToString(cache[urls[j]].data.attributes.parameterId) : j \in named}

\* the location has every id of the list
HasEvery(loc, required) == \A j \in 1..Len(required) : required[j] \in ResolvedIds(loc)

\* C15: filter_by_properties returns, in their order, exactly the locations
\* whose resolved parameter ids include every required id; a location is
\* dropped iff some required id is missing, so an id that no location has
\* leaves nothing.
C15_FilterByPropertiesKeepsSupersets ==
    (last.op = "filter_by_properties" /\ filtered.kind = "return") =>
        LET Keep(loc) == HasEvery(loc, last.args.select_properties) IN
        /\ filtered.value = SelectSeq(given, Keep)
        /\ (\A i \in 1..Len(given) : "99" \notin ResolvedIds(given[i]))
        /\ ("99" \in Elems(last.args.select_properties) => filtered.value = <<>>)

\* a call with two required ids that dropped one location for the lack of one
\* id and kept another
C15_Witness ==
    /\ last.op = "filter_by_properties" /\ filtered.kind = "return"
    /\ Len(last.args.select_properties) = 2
    /\ Len(filtered.value) = 1 /\ Len(given) = 2
    /\ \E i \in 1..2 : ResolvedIds(given[i]) # {} /\ ~HasEvery(given[i], last.args.select_properties)

\* the payload lacks data, attributes, parameterName or parameterId
LacksExpectedField(item) ==
    \/ "data" \notin DOMAIN item
    \/ "attributes" \notin DOMAIN item.data
    \/ "parameterName" \notin DOMAIN item.data.attributes
    \/ "parameterId" \notin DOMAIN item.data.attributes

\* the payloads the last call fetched and stored
FetchedPayloads == {cache[url] : url \in Elems(last.requests) \cap DOMAIN cache}

\* C16: get_parameters does not return when a payload it fetched lacks an
\* expected field (data, attributes, parameterName or parameterId): it fails
\* with a query error, and the item is not left out in silence.
C16_MissingFieldIsAnError ==
    (last.op = "get_parameters" /\ \E item \in FetchedPayloads : LacksExpectedField(item))
        => filtered.kind = "raise"

\* C17: fill_catalogItems sends at most one GET for each url in one call, also
\* when a catalog item is referenced from several locations, and the shared
\* item does not stop the call, with add_results or without.
C17_EachUrlFetchedOnce ==
    last.op = "fill_catalogItems" =>
        /\ \A i, j \in 1..Len(last.requests) :
               last.requests[i] = last.requests[j] => i = j
        /\ filtered # Raise("AssertionError")

\* the catalog items of the i-th location of a collection
ItemsAt(data, i) == data[i].relationships.catalogItems.data

\* C18: a catalog item whose fetch fails, or whose payload lacks data, does
\* not fail fill_catalogItems: the failure of a fetch is not the outcome of
\* the call, and in the collection returned every catalog item is, at its
\* position, either the stub it was or the resolved body of that same item.
C18_FailedItemIsLeftUnresolved ==
    last.op = "fill_catalogItems" =>
        /\ filtered # Raise("ContentTypeError")
        /\ filtered.kind = "return" =>
               \A i \in 1..Len(given) : \A j \in 1..Len(ItemsAt(given, i)) :
                   \/ ItemsAt(filtered.value, i)[j] = ItemsAt(given, i)[j]
                   \/ ItemsAt(filtered.value, i)[j].id = ItemsAt(given, i)[j].id

-----------------------------------------------------------------------------
(* to_covjson under its clients *)

\* the locations of the catalog collections and a point with a catalog item
\* of its own
CoverageLocations ==
    CatalogLocations \cup
        {CatalogLocation(Location(2, "2020-06-15T08:00:00+00:00", "35.7", -10000, 3500),
                         <<CatalogItemStub(2)>>),
         CatalogLocation(Location(4, "2019-10-01T12:30:00+00:00", "-5", -11000, 3500), <<>>)}

CoverageCollections ==
    {l \in UNION {[1..n -> CoverageLocations] : n \in 0..MaxCatalogLocs} :
        \A i, j \in 1..Len(l) : l[i] = l[j] => i = j}

InitCovjson ==
    /\ InitCache
    /\ MergeIdle
    /\ StoreIdle
    /\ location_response \in CoverageCollections
    /\ given = location_response
    /\ filtered = NoResult
    /\ last = NoCall

NextCovjson == ToCovjson

SpecCovjson == InitCovjson /\ [][NextCovjson]_vars

-----------------------------------------------------------------------------
(* Properties of to_covjson *)

\* the (location, parameter) pairs of the collection handed over
Pairs == UNION {{<<i, j>> : j \in 1..Len(ItemsAt(given, i))} : i \in 1..Len(given)}

\* the pair has results: the store holds observations for its catalog item
HasResults(pair) ==
    LET url == getResultUrlFromCatalogUrl(CatalogItemUrl(ItemsAt(given, pair[1])[pair[2]])) IN
    url \in DOMAIN cache /\ "data" \in DOMAIN cache[url] /\ cache[url].data # <<>>

\* C19: the CoverageCollection of to_covjson has one coverage for every
\* (location, parameter) pair with results and none for a pair without; the
\* ranges of a coverage hold one parameter only, and its values are as many as
\* the values of its time axis.
C19_OneCoveragePerPairWithResults ==
    (last.op = "to_covjson" /\ filtered.kind = "return") =>
        LET coverages == filtered.value.coverages IN
        /\ Len(coverages) = Cardinality({pair \in Pairs : HasResults(pair)})
        /\ \A n \in 1..Len(coverages) :
               /\ Len(coverages[n].ranges) = 1
               /\ Len(coverages[n].ranges[1].v.values) = Len(coverages[n].domain.axes.t.values)

\* the parameter ids that occur among the catalog items of the expanded
\* collection: those of the bodies the store holds for them
ItemParameterIds ==
    {ToString(cache[CatalogItemUrl(ItemsAt(given, pair[1])[pair[2]])].data.attributes.parameterId)
     : pair \in Pairs}

\* C20: the parameters of the CoverageCollection are among the parameter ids
\* of the catalog items of the expanded collection; without locations, or
\* without catalog items, there are none.
C20_ParametersAreThoseOfTheItems ==
    (last.op = "to_covjson" /\ filtered.kind = "return") =>
        \A n \in 1..Len(filtered.value.parameters) :
            filtered.value.parameters[n].k \in ItemParameterIds

-----------------------------------------------------------------------------
(* The cache backends of rise_cache.py: ShelveCache and RedisCache *)

\* pickle.dumps and pickle.loads: a payload and the bytes that encode it
dumps(data) == [pickle |-> data]
loads(bytes) == bytes.pickle

\* the operations of CacheInterface, as RISECache hands them to cache_impl
SetOp(url, data) == [name |-> "set", url |-> url, data |-> data]
GetOp(url) == [name |-> "get", url |-> url]
ContainsOp(url) == [name |-> "contains", url |-> url]
ClearOp(url) == [name |-> "clear", url |-> url]
ResetOp == [name |-> "reset"]

\* what an operation leaves: its outcome and the store after it
Stored(outcome, db) == [outcome |-> outcome, db |-> db]

\* shelve.open(ShelveCache.db, flag) on db: flag "w" opens an existing file and
\* raises dbm.error when there is none; the default flag "c" creates the file
shelve_open(db, flag) ==
    IF db.exists THEN Stored(Return(NoneValue), db)
    ELSE IF flag = "w" THEN Stored(Raise("dbm.error"), db)
    ELSE Stored(Return(NoneValue), [exists |-> TRUE, entries |-> <<>>])

\* ShelveCache: set, reset and clear open the shelf with "w", contains and get
\* with the default flag.  A shelf keeps the pickle of a value; the keys a dbm
\* hands to `for key in db` are a list made before the loop starts deleting.
ShelveCache(db, op) ==
    LET opened == shelve_open(db, IF op.name \in {"set", "reset", "clear"} THEN "w" ELSE "c")
        file == opened.db
        With(entries) == [file EXCEPT !.entries = entries]
    IN  IF opened.outcome.kind = "raise" THEN opened
        ELSE CASE op.name = "set" ->
                      Stored(Return(NoneValue), With(set(file.entries, op.url, dumps(op.data))))
               [] op.name = "reset" ->
                      Stored(Return(NoneValue), With(reset(file.entries)))
               [] op.name = "clear" ->
                      Stored(Return(NoneValue),
                             IF ~contains(file.entries, op.url) THEN file
                             ELSE With(clear(file.entries, op.url)))
               [] op.name = "contains" ->
                      Stored(Return(contains(file.entries, op.url)), file)
               [] op.name = "get" ->
                      IF contains(file.entries, op.url)
                      THEN Stored(Return(loads(get(file.entries, op.url))), file)
                      ELSE Stored(Raise("KeyError"), file)

\* RedisCache: set and get name pickle, which rise_cache.py does not import, so
\* evaluating pickle.dumps or pickle.loads raises NameError; get reaches
\* pickle.loads only for a stored key
RedisCache(db, op) ==
    CASE op.name = "set" -> Stored(Raise("NameError"), db)
      [] op.name = "reset" -> Stored(Return(NoneValue), reset(db))
      [] op.name = "clear" -> Stored(Return(NoneValue), clear(db, op.url))
      [] op.name = "contains" -> Stored(Return(contains(db, op.url)), db)
      [] op.name = "get" ->
             IF contains(db, op.url) THEN Stored(Raise("NameError"), db)
             ELSE Stored(Raise("KeyError"), db)

\* a client makes the same operation on a RISECache("shelve") and on a
\* RISECache("redis")
Operate(op) ==
    LET s == ShelveCache(shelf, op)
        r == RedisCache(redis, op)
    IN  /\ shelf' = s.db
        /\ redis' = r.db
        /\ answer' = [op |-> op, shelve |-> s.outcome, redis |-> r.outcome,
                      before |-> [shelf |-> shelf, redis |-> redis]]
        /\ UNCHANGED <<cacheVars, mergeVars, filterVars>>

-----------------------------------------------------------------------------
(* The backends under their clients *)

\* the payloads a client stores
Payloads == {Unpaginated(u) : u \in ItemUrls}

\* after construction: the shelf file is there from an earlier run or it is
\* not, and the redis database is empty
InitStores ==
    /\ InitCache
    /\ MergeIdle
    /\ FilterIdle
    /\ shelf \in {[exists |-> e, entries |-> <<>>] : e \in BOOLEAN}
    /\ redis = <<>>
    /\ answer = NoAnswer

NextStores ==
    \/ \E url \in ItemUrls, data \in Payloads : Operate(SetOp(url, data))
    \/ \E url \in ItemUrls : Operate(GetOp(url))
    \/ \E url \in ItemUrls : Operate(ContainsOp(url))
    \/ \E url \in ItemUrls : Operate(ClearOp(url))
    \/ Operate(ResetOp)

SpecStores == InitStores /\ [][NextStores]_vars

-----------------------------------------------------------------------------
(* Properties of the cache backends *)

\* contains(u) as the two backends answer it in the current state
ContainsNow(u) ==
    [shelve |-> ShelveCache(shelf, ContainsOp(u)).outcome,
     redis |-> RedisCache(redis, ContainsOp(u)).outcome]

\* C21: reset() never fails, and after it contains(u) is false for every url u
\* on either backend, whatever the cache held before.
C21_ResetEmptiesTheCache ==
    answer.op.name = "reset" =>
        /\ answer.shelve.kind = "return"
        /\ answer.redis.kind = "return"
        /\ \A u \in ItemUrls :
            /\ ContainsNow(u).shelve = Return(FALSE)
            /\ ContainsNow(u).redis = Return(FALSE)

\* C22: the two backends are observationally equivalent: every operation of a
\* sequence of set, get, contains, clear and reset has the same outcome (the
\* same returned value or the same exception) on ShelveCache and on RedisCache;
\* in particular set returns on both, and get after set returns the stored
\* payload on both.
C22_BackendsAreEquivalent ==
    answer.op.name # "none" =>
        /\ answer.shelve.kind = answer.redis.kind
        /\ answer.shelve = answer.redis
        /\ answer.op.name = "set" =>
            /\ ShelveCache(shelf, GetOp(answer.op.url)).outcome = Return(answer.op.data)
            /\ RedisCache(redis, GetOp(answer.op.url)).outcome = Return(answer.op.data)

-----------------------------------------------------------------------------
(* The batches the engine builds, task by task *)

\* fill_catalogItems up to the first suspension of its get_or_fetch_group:
\* one batch over the catalog item urls of all locations
StartItemBatch ==
    StartGroup(flatten_values(get_catalogItemURLs(location_response)), FALSE)

\* get_parameters up to the first suspension of the get_or_fetch_group it
\* runs for one location: a batch over the catalog item urls of that location
StartParameterBatch(location) ==
    StartGroup(get_catalogItemURLs(location_response)[location].v, FALSE)

NextBatches ==
    \/ \E force_fetch \in BOOLEAN : StartAllPages(LOCATION_API, force_fetch)
    \/ StartItemBatch
    \/ \E location \in 1..Len(location_response) : StartParameterBatch(location)
    \/ FetchComplete
    \/ GroupStep

SpecBatches == InitCatalog /\ [][NextBatches]_vars

-----------------------------------------------------------------------------
(* Properties of the group fetch: its cache writes and its tasks *)

\* C23: in every reachable state (also after a batch that a failed fetch
\* aborted) the entry the cache holds under a url u is a payload that was
\* fetched from u itself, never the payload of another url of the batch.
C23_EntriesHoldTheirOwnPayload ==
    \A u \in DOMAIN cache : cache[u].src = u

\* a get_or_fetch_group call has ended, and a clear or a reset took effect
\* while it was suspended
DisturbedGroupEnded == pc = "done" /\ call.op = "get_or_fetch_group" /\ call.raced

\* C29: a clear(u) or reset() that takes effect at a suspension point of a
\* get_or_fetch_group call does not make the call fail with a missing-key
\* error and removes no requested url from the returned map: a url classified
\* as cached has the value read from the cache before the first suspension,
\* and every other url has the value of its own fetch task.
C29_ClearAndResetDoNotBreakTheCall ==
    DisturbedGroupEnded =>
        /\ ret.kind = "raise" => ret.exc # "KeyError"
        /\ ret.kind = "return" =>
            \A url \in Elems(call.urls) :
                /\ DictHas(ret.value, url)
                /\ url \notin Elems(urls_not_in_cache) =>
                       DictGet(ret.value, url) = call.cached[url]
                /\ url \in Elems(urls_not_in_cache) =>
                       DictGet(ret.value, url) \in ReturnedFor(url)

\* C30: when every GET that was sent is answered in the end, a
\* get_or_fetch_group call that awaits its tasks ends: it returns its map or
\* fails.  And it returns its map only when every fetch of the batch has
\* completed: with a fetch that never completes the call never returns.
C30_GroupFetchEndsWhenItsFetchesDo ==
    /\ (pc = "group" /\ call.op = "get_or_fetch_group")
           ~> (pc = "done" /\ ret.kind \in {"return", "raise"})
    /\ [](GroupReturned => \A i \in 1..Len(tasks) : tasks[i].state = "done")

\* a call has returned its map after MaxGroup fetches, all of them completed
C30_Witness ==
    /\ GroupReturned
    /\ Len(tasks) = MaxGroup
    /\ \A i \in 1..Len(tasks) : tasks[i].state = "done"

\* C24: at no time during a batch the engine builds (the pages of
\* get_or_fetch_all_pages, the catalog items of get_parameters and of
\* fill_catalogItems) are two fetch tasks in flight for the same url, so no two
\* tasks of one batch write the same cache key.
C24_OneTaskInFlightPerUrl ==
    \A i, j \in 1..Len(tasks) :
        (tasks[i].state = "pending" /\ tasks[j].state = "pending"
            /\ tasks[i].url = tasks[j].url) => i = j

-----------------------------------------------------------------------------
(* Further properties of merge_pages *)

\* C25: merge_pages does not modify the PageMap it is given: after a call
\* every page still has the record array it had before, and a second call on
\* the same PageMap returns what the first returned.
C25_MergeDoesNotModifyItsInput ==
    [][merges' = merges + 1 =>
           /\ pages' = pages
           /\ merges >= 1 => merged' = merged]_vars

RECURSIVE RecordsOfPages(_)
\* the records of the pages that have a record array, in page order
RecordsOfPages(ps) ==
    IF ps = <<>> THEN <<>> ELSE DataOf(Head(ps).v) \o RecordsOfPages(Tail(ps))

LacksRecords(ps) == \E i \in 1..Len(ps) : "data" \notin DOMAIN ps[i].v

\* C26: merge_pages does not fail because a page has no record array, at
\* whatever position of the PageMap (the first included): the page is skipped
\* and the result holds all the records of the other pages.
C26_PageWithoutRecordsIsSkipped ==
    (merges > 0 /\ LacksRecords(pagesGiven)) =>
        /\ merged.kind = "return"
        /\ DataOf(merged.value[1].v) = RecordsOfPages(pagesGiven)

-----------------------------------------------------------------------------
(* The provider's way from the pages to the collection *)

\* get_only_key(mapper): list(mapper.values())[0]
get_only_key(mapper) == mapper[1].v

\* RiseEDRProvider.items from the PageMap on: merge_pages, get_only_key and
\* `if response is None: raise ProviderNoDataError`
merged_response(all_location_responses) ==
    LET m == merge_pages(all_location_responses).outcome IN
    IF m.kind = "raise" THEN m
    ELSE IF get_only_key(m.value) = NoneValue THEN Raise("ProviderNoDataError")
    ELSE Return(get_only_key(m.value))

\* C27: an empty but successful fetch is no error: when the remote reports a
\* paginated collection of totalItems = 0, get_or_fetch_all_pages followed by
\* merge_pages and get_only_key gives a collection of zero records, not a
\* missing payload that the provider reports as ProviderNoDataError.
C27_EmptyCollectionIsNotAnError ==
    (AllPagesReturned /\ ~NOT_PAGINATED(FirstResponse)
        /\ FirstResponse.meta.totalItems = 0) =>
        /\ merged_response(ret.value).kind = "return"
        /\ DataOf(merged_response(ret.value).value) = <<>>

-----------------------------------------------------------------------------
(* The filters on a collection of zero records *)

\* a datetime text of one value, or of two well-formed bounds in order
WellFormedDate(datetime_) ==
    LET dateRange == split(datetime_, "/") IN
    \/ Len(dateRange) = 1 /\ datetime_ # ""
    \/ /\ Len(dateRange) = 2
       /\ BoundOk(dateRange[1]) /\ BoundOk(dateRange[2])
       /\ ~Later(start_of(dateRange[1]), end_of(dateRange[2]))

\* the last call was one of the six filters, with well-formed arguments
WellFormedFilterCall ==
    CASE last.op = "filter_by_date" -> WellFormedDate(last.args.datetime_)
      [] last.op = "filter_by_wkt" ->
             /\ last.args.wkt = NoWkt \/ wkt_loads(last.args.wkt).kind = "return"
             /\ ~MalformedZ(last.args.z)
      [] last.op = "filter_by_bbox" ->
             ~MalformedBbox(last.args.bbox) /\ ~MalformedZ(last.args.z)
      [] last.op \in {"filter_by_limit", "remove_before_offset", "filter_by_id"} -> TRUE
      [] OTHER -> FALSE

\* C28: every filter (filter_by_date, filter_by_bbox, filter_by_wkt,
\* filter_by_limit, remove_before_offset, filter_by_id) applied to a collection
\* of zero records returns a collection of zero records and raises no error.
C28_FiltersAcceptTheEmptyCollection ==
    (WellFormedFilterCall /\ given = <<>>) => filtered = Return(<<>>)

====
